---- MODULE Spec2Model ----
(***************************************************************************)
(* The workflow engine of PM-Software (services/workflowEngine.js) over    *)
(* the tables it reads and writes: projects, project_phases,               *)
(* phase_stakeholders, deliverables, activity_logs and notifications.      *)
(* One action per exported engine operation or REST handler; each action   *)
(* is the whole call, cascades included, and leaves its outcome in         *)
(* `result`.                                                               *)
(***************************************************************************)
EXTENDS Integers, Sequences, FiniteSets, Bags, TLC

VARIABLES projects, project_phases, phase_stakeholders, deliverables,
          activity_logs, notifications, today, result, calls,
          deliverable_versions

vars == <<projects, project_phases, phase_stakeholders, deliverables,
          activity_logs, notifications, today, result, calls,
          deliverable_versions>>

(***************************************************************************)
(* Bounds of the model: the rows the tables projects, project_phases,       *)
(* phase_stakeholders, deliverables and activity_logs may hold, the         *)
(* phase_order values a template may use, the users and the acting users.   *)
(***************************************************************************)
MaxProjects == 2
MaxPhases == 2
MaxOrder == 2
MaxStakeholders == 1
MaxDeliverables == 2
MaxLog == 4
NumUsers == 2
NumCallers == 1
NumManagers == 1
MaxDay == 2
MaxNotifications == 3
NumContents == 2
NumProcs == 2

\* SQL NULL / JavaScript null, for ids and absent rows.
NULL == 0

Users == 1..NumUsers
\* The acting users (req.user.userId, the userId argument of the engine).
Callers == 1..NumCallers
\* The users a create request may name as the project's PM (pmId).
Managers == 1..NumManagers

\* Ids a caller may pass: every id a row can have and one no row ever has.
ProjectIdInputs == 1..(MaxProjects + 1)
PhaseIdInputs == 1..(MaxPhases + 1)
OrderInputs == 0..MaxOrder

ProjectStatus == {"draft", "active", "on_hold", "completed", "cancelled"}
PhaseStatus == {"pending", "in_progress", "completed", "blocked"}
DeliverableStatus == {"pending", "in_progress", "review", "approved", "rejected"}

\* Status strings a caller may pass: every status of the table and one string
\* that is no status of it.
ProjectStatusInputs == ProjectStatus \cup {"in_progress"}
PhaseStatusInputs == PhaseStatus \cup {"active"}

(***************************************************************************)
(* Status registry.                                                        *)
(***************************************************************************)
PROJECT_STATES_reopen ==
    [draft |-> {"active", "cancelled"},
     active |-> {"on_hold", "completed", "cancelled"},
     on_hold |-> {"active", "cancelled"},
     completed |-> {"active"},
     cancelled |-> {}]

PROJECT_STATES ==
    [draft |-> {"active", "cancelled"},
     active |-> {"on_hold", "completed", "cancelled"},
     on_hold |-> {"active", "cancelled"},
     completed |-> {},
     cancelled |-> {}]

PHASE_STATES_reopen ==
    [pending |-> {"in_progress"},
     in_progress |-> {"completed", "blocked"},
     blocked |-> {"in_progress"},
     completed |-> {"in_progress"}]

PHASE_STATES ==
    [pending |-> {"in_progress"},
     in_progress |-> {"completed", "blocked"},
     blocked |-> {"in_progress"},
     completed |-> {}]

(***************************************************************************)
(* Errors and call outcomes.  The engine throws plain Errors; the kind is  *)
(* the fixed part of the message, from/to the two statuses it names.       *)
(***************************************************************************)
NoError == [kind |-> "none", from |-> "", to |-> ""]
NotFound == [kind |-> "NotFound", from |-> "", to |-> ""]
InvalidTransition(currentStatus, newStatus) ==
    [kind |-> "InvalidTransition", from |-> currentStatus, to |-> newStatus]
NoValidFields == [kind |-> "NoValidFields", from |-> "", to |-> ""]
\* The error of a rejected query: sendNotification's INSERT INTO notifications
\* is awaited outside any try/catch.
NotificationFailure == [kind |-> "NotificationFailure", from |-> "", to |-> ""]

\* The row a call returns: its id and status; NoRow for null / nothing.
NoRow == [id |-> NULL, status |-> ""]
Row(id, status) == [id |-> id, status |-> status]

\* The tables the engine writes, threaded through the steps of one call, and
\* the notification sink as the call meets it: `down` are the users whose
\* INSERT INTO notifications is rejected, `before` the users a stakeholder
\* query (no ORDER BY) returns ahead of the first of those, `thrown` whether
\* a sendNotification has thrown.  The sink works unless a call says otherwise.
\* `depth` is the number of engine operations on the call stack, the one
\* that was called on this database included, `deepest` the most there were.
DB == [projects |-> projects, project_phases |-> project_phases,
       activity_logs |-> activity_logs, notifications |-> notifications,
       down |-> {}, before |-> {}, thrown |-> FALSE, depth |-> 1, deepest |-> 1]

\* The database of a call during which the sink rejects the INSERTs of `down`.
SinkDown(down, before) == [DB EXCEPT !.down = down, !.before = before]

Outcome(db, error, ret) == [db |-> db, error |-> error, ret |-> ret]

\* The database as an engine operation called from within an engine
\* operation meets it, and as the caller gets it back.
Nested(db) ==
    [db EXCEPT !.depth = @ + 1,
               !.deepest = IF db.depth + 1 > @ THEN db.depth + 1 ELSE @]
Returned(out) == [out EXCEPT !.db.depth = @ - 1]

(***************************************************************************)
(* Collaborators: activity log, notification sink, phase persistence.      *)
(***************************************************************************)
\* description: the entity the text names and the statuses it names.
Description(subject, from, to) == [subject |-> subject, from |-> from, to |-> to]

logActivity(db, projectId, userId, activityType, description) ==
    [db EXCEPT !.activity_logs =
        Append(@, [project_id |-> projectId, user_id |-> userId,
                   activity_type |-> activityType, description |-> description])]

Notification(userId, notificationType, relatedProjectId) ==
    [user_id |-> userId, notification_type |-> notificationType,
     related_project_id |-> relatedProjectId]

\* One INSERT INTO notifications; a rejected INSERT throws.  The e-mail that
\* follows is sent inside try/catch: its failure changes nothing.
sendNotification(db, userId, notificationType, relatedProjectId) ==
    IF userId \in db.down THEN [db EXCEPT !.thrown = TRUE]
    ELSE [db EXCEPT !.notifications =
            @ (+) SetToBag({Notification(userId, notificationType, relatedProjectId)})]

\* The error an await of sendNotification leaves behind.
Raised(db) == IF db.thrown THEN NotificationFailure ELSE NoError

\* The users a loop over `recipients` reaches: all of them, or, when the
\* INSERT of one of them throws, those the query returned before that one.
Reached(db, recipients) ==
    IF recipients \cap db.down = {} THEN recipients
    ELSE (recipients \cap db.before) \ db.down

\* SELECT user_id FROM phase_stakeholders WHERE phase_id = phaseId, as the
\* number of rows per user.
StakeholderRows(phaseId, userId) ==
    Cardinality({i \in DOMAIN phase_stakeholders :
                    /\ phase_stakeholders[i].phase_id = phaseId
                    /\ phase_stakeholders[i].user_id = userId})

\* for (const stakeholder of rows) await sendNotification(...): one
\* notification per row.
NotifyStakeholders(db, phaseId, notificationType, projectId) ==
    LET recipients == {u \in Users : StakeholderRows(phaseId, u) > 0}
    IN  [db EXCEPT !.notifications =
            @ (+) [n \in {Notification(u, notificationType, projectId) :
                             u \in Reached(db, recipients)}
                     |-> StakeholderRows(phaseId, n.user_id)],
                   !.thrown = (recipients \cap db.down # {})]

\* for (const stakeholder of rows) await sendNotification(...) over the
\* DISTINCT stakeholders of a project: one notification per user.
NotifyUsers(db, recipients, notificationType, projectId) ==
    [db EXCEPT !.notifications =
        @ (+) SetToBag({Notification(u, notificationType, projectId) :
                           u \in Reached(db, recipients)}),
               !.thrown = (recipients \cap db.down # {})]

\* SELECT DISTINCT user_id ... WHERE pp.project_id = projectId
ProjectStakeholders(db, projectId) ==
    {u \in Users :
        \E i \in DOMAIN phase_stakeholders :
            /\ phase_stakeholders[i].user_id = u
            /\ phase_stakeholders[i].phase_id \in DOMAIN db.project_phases
            /\ db.project_phases[phase_stakeholders[i].phase_id].project_id = projectId}

NoDates == [actualStartDate |-> NULL, actualEndDate |-> NULL]

updatePhaseStatus(db, phaseId, status, actualDates) ==
    IF phaseId \notin DOMAIN db.project_phases THEN db
    ELSE
    LET old == db.project_phases[phaseId]
        start == IF status = "in_progress" /\ actualDates.actualStartDate = NULL
                 THEN today
                 ELSE IF actualDates.actualStartDate # NULL
                      THEN actualDates.actualStartDate
                      ELSE old.actual_start_date
        end ==   IF status = "completed" /\ actualDates.actualEndDate = NULL
                 THEN today
                 ELSE IF actualDates.actualEndDate # NULL
                      THEN actualDates.actualEndDate
                      ELSE old.actual_end_date
    IN  [db EXCEPT !.project_phases[phaseId] =
            [@ EXCEPT !.status = status,
                      !.actual_start_date = start,
                      !.actual_end_date = end]]

\* rows[0] of a query without ORDER BY: any of the rows; `pick` is the row
\* the database happens to return first when it is among them.
Min(S) == CHOOSE x \in S : \A y \in S : x <= y
FirstRow(rows, pick) == IF pick \in rows THEN pick ELSE Min(rows)

(***************************************************************************)
(* Project transition and its cascade.                                     *)
(***************************************************************************)
isLegal_any(table, currentStatus, newStatus) ==
    currentStatus \in DOMAIN table

\* !(!allowedTransitions || !allowedTransitions.includes(newStatus))
isLegal(table, currentStatus, newStatus) ==
    /\ currentStatus \in DOMAIN table
    /\ newStatus \in table[currentStatus]

handleProjectStatusChange_noguard(db, projectId, project, newStatus, userId, pick) ==
    IF newStatus = "active" THEN
        LET rows == {ph \in DOMAIN db.project_phases :
                        /\ db.project_phases[ph].project_id = projectId
                        /\ db.project_phases[ph].phase_order = 1}
            db1 == IF rows # {}
                   THEN updatePhaseStatus(db, FirstRow(rows, pick), "in_progress", NoDates)
                   ELSE db
            db2 == sendNotification(db1, project.pm_id, "project_activated", projectId)
        IN  Outcome(db2, Raised(db2), NoRow)
    ELSE IF newStatus = "completed" THEN
        LET db1 == NotifyUsers(db, ProjectStakeholders(db, projectId),
                               "project_completed", projectId)
        IN  Outcome(db1, Raised(db1), NoRow)
    ELSE Outcome(db, NoError, NoRow)

handleProjectStatusChange_anyorder(db, projectId, project, newStatus, userId, pick) ==
    IF newStatus = "active" THEN
        LET rows == {ph \in DOMAIN db.project_phases :
                        /\ db.project_phases[ph].project_id = projectId
                        /\ db.project_phases[ph].status = "pending"}
            db1 == [db EXCEPT !.project_phases =
                       [ph \in DOMAIN @ |->
                           IF ph \in rows
                           THEN updatePhaseStatus(db, ph, "in_progress", NoDates)
                                    .project_phases[ph]
                           ELSE @[ph]]]
            db2 == sendNotification(db1, project.pm_id, "project_activated", projectId)
        IN  Outcome(db2, Raised(db2), NoRow)
    ELSE IF newStatus = "completed" THEN
        LET db1 == NotifyUsers(db, ProjectStakeholders(db, projectId),
                               "project_completed", projectId)
        IN  Outcome(db1, Raised(db1), NoRow)
    ELSE Outcome(db, NoError, NoRow)

\* The activation cascade going through the phase cascade: the start of the
\* first phase is logged and its stakeholders are notified.
handleProjectStatusChange_cascading(db, projectId, project, newStatus, userId, pick) ==
    IF newStatus = "active" THEN
        LET rows == {ph \in DOMAIN db.project_phases :
                        /\ db.project_phases[ph].project_id = projectId
                        /\ db.project_phases[ph].phase_order = 1}
            first == FirstRow(rows, pick)
            started == rows # {} /\ db.project_phases[first].status = "pending"
            db1 == IF started
                   THEN NotifyStakeholders(
                            logActivity(updatePhaseStatus(db, first, "in_progress", NoDates),
                                        projectId, userId, "phase_status_change",
                                        Description(first, "", "in_progress")),
                            first, "phase_in_progress", projectId)
                   ELSE db
            db2 == sendNotification(db1, project.pm_id, "project_activated", projectId)
        IN  Outcome(db2, Raised(db2), NoRow)
    ELSE IF newStatus = "completed" THEN
        LET db1 == NotifyUsers(db, ProjectStakeholders(db, projectId),
                               "project_completed", projectId)
        IN  Outcome(db1, Raised(db1), NoRow)
    ELSE Outcome(db, NoError, NoRow)

\* The activation cascade starting the first phase through a nested call
\* of the phase transition.
handleProjectStatusChange_nested(db, projectId, project, newStatus, userId, pick) ==
    IF newStatus = "active" THEN
        LET rows == {ph \in DOMAIN db.project_phases :
                        /\ db.project_phases[ph].project_id = projectId
                        /\ db.project_phases[ph].phase_order = 1}
            db1 == IF rows # {}
                      /\ db.project_phases[FirstRow(rows, pick)].status = "pending"
                   THEN Returned(Outcome(
                            updatePhaseStatus(Nested(db), FirstRow(rows, pick),
                                              "in_progress", NoDates),
                            NoError, NoRow)).db
                   ELSE db
            db2 == sendNotification(db1, project.pm_id, "project_activated", projectId)
        IN  Outcome(db2, Raised(db2), NoRow)
    ELSE IF newStatus = "completed" THEN
        LET db1 == NotifyUsers(db, ProjectStakeholders(db, projectId),
                               "project_completed", projectId)
        IN  Outcome(db1, Raised(db1), NoRow)
    ELSE Outcome(db, NoError, NoRow)

handleProjectStatusChange(db, projectId, project, newStatus, userId, pick) ==
    IF newStatus = "active" THEN
        LET rows == {ph \in DOMAIN db.project_phases :
                        /\ db.project_phases[ph].project_id = projectId
                        /\ db.project_phases[ph].phase_order = 1}
            db1 == IF rows # {}
                      /\ db.project_phases[FirstRow(rows, pick)].status = "pending"
                   THEN updatePhaseStatus(db, FirstRow(rows, pick), "in_progress", NoDates)
                   ELSE db
            db2 == sendNotification(db1, project.pm_id, "project_activated", projectId)
        IN  Outcome(db2, Raised(db2), NoRow)
    ELSE IF newStatus = "completed" THEN
        LET db1 == NotifyUsers(db, ProjectStakeholders(db, projectId),
                               "project_completed", projectId)
        IN  Outcome(db1, Raised(db1), NoRow)
    ELSE Outcome(db, NoError, NoRow)

transitionProjectStatus_nolookup(db, projectId, newStatus, userId, pick) ==
    IF projectId \notin DOMAIN db.projects
    THEN Outcome(logActivity(db, projectId, userId, "project_status_change",
                             Description(projectId, "", newStatus)),
                 NoError, NoRow)
    ELSE
    LET project == db.projects[projectId]
        currentStatus == project.status
    IN  IF ~isLegal(PROJECT_STATES, currentStatus, newStatus)
        THEN Outcome(db, InvalidTransition(currentStatus, newStatus), NoRow)
        ELSE
        LET db1 == [db EXCEPT !.projects[projectId].status = newStatus]
            db2 == logActivity(db1, projectId, userId, "project_status_change",
                               Description(projectId, currentStatus, newStatus))
            out == handleProjectStatusChange(db2, projectId, project, newStatus, userId, pick)
        IN  IF out.error # NoError THEN out
            ELSE Outcome(out.db, NoError, Row(projectId, newStatus))

transitionProjectStatus(db, projectId, newStatus, userId, pick) ==
    IF projectId \notin DOMAIN db.projects THEN Outcome(db, NotFound, NoRow)
    ELSE
    LET project == db.projects[projectId]
        currentStatus == project.status
    IN  IF ~isLegal(PROJECT_STATES, currentStatus, newStatus)
        THEN Outcome(db, InvalidTransition(currentStatus, newStatus), NoRow)
        ELSE
        LET db1 == [db EXCEPT !.projects[projectId].status = newStatus]
            db2 == logActivity(db1, projectId, userId, "project_status_change",
                               Description(projectId, currentStatus, newStatus))
            out == handleProjectStatusChange(db2, projectId, project, newStatus, userId, pick)
        IN  IF out.error # NoError THEN out
            ELSE Outcome(out.db, NoError, Row(projectId, newStatus))

(***************************************************************************)
(* Phase operations and the phase cascade.                                 *)
(***************************************************************************)
autoProgressToNextPhase_anystatus(db, projectId, currentPhaseOrder, pick) ==
    LET rows == {ph \in DOMAIN db.project_phases :
                    /\ db.project_phases[ph].project_id = projectId
                    /\ db.project_phases[ph].phase_order = currentPhaseOrder + 1}
    IN  IF rows # {} THEN
            LET nextPhase == FirstRow(rows, pick)
                db1 == updatePhaseStatus(db, nextPhase, "in_progress", NoDates)
                db2 == NotifyStakeholders(db1, nextPhase, "phase_start", projectId)
                db3 == logActivity(db2, projectId, NULL, "phase_auto_start",
                                   Description(nextPhase, "", ""))
            IN  Outcome(db3, NoError, Row(nextPhase, db.project_phases[nextPhase].status))
        ELSE Outcome(db, NoError, NoRow)

autoProgressToNextPhase(db, projectId, currentPhaseOrder, pick) ==
    LET rows == {ph \in DOMAIN db.project_phases :
                    /\ db.project_phases[ph].project_id = projectId
                    /\ db.project_phases[ph].phase_order = currentPhaseOrder + 1
                    /\ db.project_phases[ph].status = "pending"}
    IN  IF rows # {} THEN
            LET nextPhase == FirstRow(rows, pick)
                db1 == updatePhaseStatus(db, nextPhase, "in_progress", NoDates)
                db2 == NotifyStakeholders(db1, nextPhase, "phase_start", projectId)
                db3 == logActivity(db2, projectId, NULL, "phase_auto_start",
                                   Description(nextPhase, "", ""))
            \* `return nextPhase`: the row as it was selected.
            IN  IF db2.thrown THEN Outcome(db2, NotificationFailure, NoRow)
                ELSE Outcome(db3, NoError,
                             Row(nextPhase, db.project_phases[nextPhase].status))
        ELSE Outcome(db, NoError, NoRow)

handlePhaseStatusChange_noauto(db, phaseId, phase, newStatus, userId, pick) ==
    IF newStatus = "completed" THEN
        LET all == {ph \in DOMAIN db.project_phases :
                        db.project_phases[ph].project_id = phase.project_id}
            total == Cardinality(all)
            completed == Cardinality({ph \in all :
                                         db.project_phases[ph].status = "completed"})
        IN  IF total = completed
            THEN Returned(transitionProjectStatus(Nested(db), phase.project_id,
                                                  "completed", userId, pick))
            ELSE Outcome(db, NoError, NoRow)
    ELSE IF newStatus = "in_progress" THEN
        Outcome(NotifyStakeholders(db, phaseId, "phase_in_progress", phase.project_id),
                NoError, NoRow)
    ELSE Outcome(db, NoError, NoRow)

\* The phase cascade notifying the phase's stakeholders of every status.
handlePhaseStatusChange_notifyall(db, phaseId, phase, newStatus, userId, pick) ==
    IF newStatus = "completed" THEN
        LET next == Returned(autoProgressToNextPhase(Nested(db), phase.project_id,
                                                     phase.phase_order, pick))
            db1 == next.db
            all == {ph \in DOMAIN db1.project_phases :
                        db1.project_phases[ph].project_id = phase.project_id}
            total == Cardinality(all)
            completed == Cardinality({ph \in all :
                                         db1.project_phases[ph].status = "completed"})
        IN  IF next.error # NoError THEN next
            ELSE IF total = completed
            THEN Returned(transitionProjectStatus(Nested(db1), phase.project_id,
                                                  "completed", userId, pick))
            ELSE Outcome(db1, NoError, NoRow)
    ELSE
        LET db1 == NotifyStakeholders(db, phaseId, "phase_in_progress", phase.project_id)
        IN  Outcome(db1, Raised(db1), NoRow)

\* The phase cascade completing the project only when it is active.
handlePhaseStatusChange_onlyactive(db, phaseId, phase, newStatus, userId, pick) ==
    IF newStatus = "completed" THEN
        LET next == Returned(autoProgressToNextPhase(Nested(db), phase.project_id,
                                                     phase.phase_order, pick))
            db1 == next.db
            all == {ph \in DOMAIN db1.project_phases :
                        db1.project_phases[ph].project_id = phase.project_id}
            total == Cardinality(all)
            completed == Cardinality({ph \in all :
                                         db1.project_phases[ph].status = "completed"})
        IN  IF next.error # NoError THEN next
            ELSE IF total = completed /\ db1.projects[phase.project_id].status = "active"
            THEN Returned(transitionProjectStatus(Nested(db1), phase.project_id,
                                                  "completed", userId, pick))
            ELSE Outcome(db1, NoError, NoRow)
    ELSE IF newStatus = "in_progress" THEN
        LET db1 == NotifyStakeholders(db, phaseId, "phase_in_progress", phase.project_id)
        IN  Outcome(db1, Raised(db1), NoRow)
    ELSE Outcome(db, NoError, NoRow)

handlePhaseStatusChange(db, phaseId, phase, newStatus, userId, pick) ==
    IF newStatus = "completed" THEN
        LET next == Returned(autoProgressToNextPhase(Nested(db), phase.project_id,
                                                     phase.phase_order, pick))
            db1 == next.db
            all == {ph \in DOMAIN db1.project_phases :
                        db1.project_phases[ph].project_id = phase.project_id}
            total == Cardinality(all)
            completed == Cardinality({ph \in all :
                                         db1.project_phases[ph].status = "completed"})
        IN  IF next.error # NoError THEN next
            ELSE IF total = completed
            THEN Returned(transitionProjectStatus(Nested(db1), phase.project_id,
                                                  "completed", userId, pick))
            ELSE Outcome(db1, NoError, NoRow)
    ELSE IF newStatus = "in_progress" THEN
        LET db1 == NotifyStakeholders(db, phaseId, "phase_in_progress", phase.project_id)
        IN  Outcome(db1, Raised(db1), NoRow)
    ELSE Outcome(db, NoError, NoRow)

progressPhase(db, phaseId, newStatus, userId, pick) ==
    IF phaseId \notin DOMAIN db.project_phases THEN Outcome(db, NotFound, NoRow)
    ELSE
    LET phase == db.project_phases[phaseId]
        currentStatus == phase.status
    IN  IF ~isLegal(PHASE_STATES, currentStatus, newStatus)
        THEN Outcome(db, InvalidTransition(currentStatus, newStatus), NoRow)
        ELSE
        LET db1 == updatePhaseStatus(db, phaseId, newStatus, NoDates)
            db2 == logActivity(db1, phase.project_id, userId, "phase_status_change",
                               Description(phaseId, "", newStatus))
            out == handlePhaseStatusChange(db2, phaseId, phase, newStatus, userId, pick)
        IN  IF out.error # NoError THEN out
            ELSE Outcome(out.db, NoError, Row(phaseId, newStatus))

checkPhaseCompletion_vacuous(phaseId) ==
    LET rows == {d \in DOMAIN deliverables : deliverables[d].phase_id = phaseId}
        total == Cardinality(rows)
        approved == Cardinality({d \in rows : deliverables[d].status = "approved"})
    IN  total = approved

checkPhaseCompletion(phaseId) ==
    LET rows == {d \in DOMAIN deliverables : deliverables[d].phase_id = phaseId}
        total == Cardinality(rows)
        approved == Cardinality({d \in rows : deliverables[d].status = "approved"})
    IN  total = approved /\ total > 0

(***************************************************************************)
(* Project CRUD behind the REST handlers.                                  *)
(***************************************************************************)
\* A field the request body does not carry.
Absent == "undefined"
AccessDenied == [kind |-> "AccessDenied", from |-> "", to |-> ""]
\* The CHECK constraint of projects.status rejects the UPDATE.
CheckViolation == [kind |-> "CheckViolation", from |-> "", to |-> ""]

\* updates.status is the status field of the body; updates.other tells
\* whether the body carries another allowed field (name, description, dates).
updateProject(db, id, updates) ==
    IF updates.status = Absent /\ ~updates.other
    THEN Outcome(db, NoValidFields, NoRow)
    ELSE IF updates.status = Absent
    THEN Outcome(db, NoError, Row(id, db.projects[id].status))
    ELSE IF updates.status \notin ProjectStatus
    THEN Outcome(db, CheckViolation, NoRow)
    ELSE Outcome([db EXCEPT !.projects[id].status = updates.status],
                 NoError, Row(id, updates.status))

\* router.put('/:id')
putProject(db, id, user, updates) ==
    IF id \notin DOMAIN db.projects THEN Outcome(db, NotFound, NoRow)
    ELSE IF ~user.admin /\ db.projects[id].pm_id # user.userId
    THEN Outcome(db, AccessDenied, NoRow)
    ELSE
    LET out == updateProject(db, id, updates)
    IN  IF out.error # NoError THEN out
        ELSE Outcome(logActivity(out.db, id, user.userId, "project_updated",
                                 Description(id, "", "")),
                     NoError, out.ret)

\* A template as getTemplatePhases returns it: its phases ORDER BY
\* phase_order, each with the phaseOrder the template request gave it.
IsSorted(t) == \A i \in 1..(Len(t) - 1) : t[i] <= t[i + 1]
Templates == {t \in UNION {[1..n -> 1..MaxOrder] : n \in 0..MaxPhases} : IsSorted(t)}
\* The stakeholders of a create request, per phase of the template.
StakeholderLists == UNION {[1..n -> Users] : n \in 0..MaxStakeholders}
StakeholderRequests(n) == [1..n -> StakeholderLists]

RECURSIVE Flatten(_)
Flatten(ss) == IF ss = <<>> THEN <<>> ELSE Head(ss) \o Flatten(Tail(ss))

\* createProject + initializeProjectFromTemplate + addPhaseStakeholder:
\* the rows POST /api/projects inserts.
NewProject(pmId) == [status |-> "draft", pm_id |-> pmId]
NewPhases(projectId, template) ==
    [i \in 1..Len(template) |->
        [project_id |-> projectId, phase_order |-> template[i], status |-> "pending",
         end_date |-> NULL, actual_start_date |-> NULL, actual_end_date |-> NULL]]
NewStakeholders(firstPhaseId, stakeholders) ==
    Flatten([i \in 1..Len(stakeholders) |->
                [j \in 1..Len(stakeholders[i]) |->
                    [phase_id |-> firstPhaseId + i - 1, user_id |-> stakeholders[i][j]]]])

\* The deliverables initializeProjectFromTemplate inserts: counts[i] pending
\* rows under the i-th created phase.
NewDeliverable(projectId, phaseId, assignedTo, dueDate) ==
    [project_id |-> projectId, phase_id |-> phaseId, status |-> "pending",
     assigned_to |-> assignedTo, due_date |-> dueDate, content |-> NULL]
NewDeliverables(projectId, firstPhaseId, counts) ==
    Flatten([i \in 1..Len(counts) |->
                [j \in 1..counts[i] |->
                    NewDeliverable(projectId, firstPhaseId + i - 1, NULL, NULL)]])

\* createProjectPhase: INSERT INTO project_phases with the dates of
\* phaseData; status takes the column's default.
createProjectPhase(db, phaseData) ==
    [db EXCEPT !.project_phases =
        Append(@, [project_id |-> phaseData.projectId,
                   phase_order |-> phaseData.phaseOrder, status |-> "pending",
                   end_date |-> phaseData.endDate,
                   actual_start_date |-> NULL, actual_end_date |-> NULL])]

(***************************************************************************)
(* Deadline sweep.  Dates are day numbers; NULL is no date.                *)
(***************************************************************************)
\* INTERVAL '3 days'
Window == 3

\* The dates a request may carry: the first day, and a day that is within
\* the window on the last day of the model only.
DateInputs == {1, MaxDay + Window}

\* date BETWEEN CURRENT_DATE AND CURRENT_DATE + INTERVAL '3 days'; NULL is
\* between nothing.
Between(date) == date # NULL /\ today <= date /\ date <= today + Window

\* for (const row of rows) await sendNotification(...): one notification per
\* row, to the user `recipient` names; a rejected INSERT ends the loop.
NotifyRows(db, rows, recipient, projectOf) ==
    LET recipients == {recipient[r] : r \in rows}
        sent(r) == Notification(recipient[r], "deadline_warning", projectOf[r])
    IN  [db EXCEPT !.notifications =
            @ (+) [n \in {sent(r) : r \in {x \in rows :
                                              recipient[x] \in Reached(db, recipients)}}
                     |-> Cardinality({r \in rows : sent(r) = n})],
                   !.thrown = (recipients \cap db.down # {})]

checkDeadlines_anystatus(db) ==
    LET upcomingPhaseDeadlines ==
            {ph \in DOMAIN db.project_phases :
                /\ db.project_phases[ph].project_id \in DOMAIN db.projects
                /\ db.project_phases[ph].status = "in_progress"
                /\ Between(db.project_phases[ph].end_date)}
        upcomingDeliverableDeadlines ==
            {d \in DOMAIN deliverables :
                /\ deliverables[d].project_id \in DOMAIN db.projects
                /\ Between(deliverables[d].due_date)}
        pm(ph) == db.projects[db.project_phases[ph].project_id].pm_id
        phaseProject(ph) == db.project_phases[ph].project_id
        assignee(d) == deliverables[d].assigned_to
        deliverableProject(d) == deliverables[d].project_id
        db1 == NotifyRows(db, upcomingPhaseDeadlines,
                          [ph \in upcomingPhaseDeadlines |-> pm(ph)],
                          [ph \in upcomingPhaseDeadlines |-> phaseProject(ph)])
        db2 == NotifyRows(db1, {d \in upcomingDeliverableDeadlines : assignee(d) # NULL},
                          [d \in upcomingDeliverableDeadlines |-> assignee(d)],
                          [d \in upcomingDeliverableDeadlines |-> deliverableProject(d)])
    IN  IF db1.thrown THEN Outcome(db1, NotificationFailure, NoRow)
        ELSE Outcome(db2, Raised(db2), NoRow)

checkDeadlines(db) ==
    LET upcomingPhaseDeadlines ==
            {ph \in DOMAIN db.project_phases :
                /\ db.project_phases[ph].project_id \in DOMAIN db.projects
                /\ db.project_phases[ph].status = "in_progress"
                /\ Between(db.project_phases[ph].end_date)}
        upcomingDeliverableDeadlines ==
            {d \in DOMAIN deliverables :
                /\ deliverables[d].project_id \in DOMAIN db.projects
                /\ deliverables[d].status \notin {"approved", "rejected"}
                /\ Between(deliverables[d].due_date)}
        pm(ph) == db.projects[db.project_phases[ph].project_id].pm_id
        phaseProject(ph) == db.project_phases[ph].project_id
        assignee(d) == deliverables[d].assigned_to
        deliverableProject(d) == deliverables[d].project_id
        db1 == NotifyRows(db, upcomingPhaseDeadlines,
                          [ph \in upcomingPhaseDeadlines |-> pm(ph)],
                          [ph \in upcomingPhaseDeadlines |-> phaseProject(ph)])
        db2 == NotifyRows(db1, {d \in upcomingDeliverableDeadlines : assignee(d) # NULL},
                          [d \in upcomingDeliverableDeadlines |-> assignee(d)],
                          [d \in upcomingDeliverableDeadlines |-> deliverableProject(d)])
    IN  IF db1.thrown THEN Outcome(db1, NotificationFailure, NoRow)
        ELSE Outcome(db2, Raised(db2), NoRow)

(***************************************************************************)
(* A call in flight, await by await.  Each await of transitionProjectStatus *)
(* and progressPhase yields to the event loop, so the steps of two requests *)
(* interleave: load (SELECT), validate, write (UPDATE), log (INSERT INTO    *)
(* activity_logs), cascade (handle...StatusChange).                         *)
(***************************************************************************)
Procs == 1..NumProcs

Idle == [pc |-> "idle", op |-> "", id |-> NULL, newStatus |-> "", userId |-> NULL,
         currentStatus |-> "", error |-> "none", steps |-> <<>>,
         nextPhase |-> NULL, content |-> NULL, loaded |-> NULL, latestVersion |-> 0]

\* The statement after each statement of the two operations.
NextStep_logfirst(step) ==
    CASE step = "load" -> "validate"
      [] step = "validate" -> "log"
      [] step = "log" -> "write"
      [] step = "write" -> "cascade"
      [] step = "cascade" -> "done"

NextStep(step) ==
    CASE step = "load" -> "validate"
      [] step = "validate" -> "write"
      [] step = "write" -> "log"
      [] step = "log" -> "cascade"
      [] step = "cascade" -> "done"

\* The call has performed `step` and goes on.
Proceed(call, step) ==
    [call EXCEPT !.pc = NextStep(step), !.steps = Append(@, step)]

\* The call has performed `step`, which threw.
Throw(call, step, error) ==
    [call EXCEPT !.pc = "done", !.steps = Append(@, step), !.error = error.kind]

\* The table and the registry of the operation.
IsProjectCall(call) == call.op = "transitionProjectStatus"
RowsOf(call) == IF IsProjectCall(call) THEN projects ELSE project_phases
StatesOf(call) == IF IsProjectCall(call) THEN PROJECT_STATES ELSE PHASE_STATES

(***************************************************************************)
(* State machine.                                                          *)
(***************************************************************************)
\* What the last call left behind: the operation, the kind of error it
\* raised ("none" when it returned), the id of the row it returned, for a
\* call that returns a boolean, that boolean, and how deep the stack of
\* engine operations got.
Result(op, out) ==
    [op |-> op, error |-> out.error.kind, ret |-> out.ret.id, value |-> FALSE,
     depth |-> out.db.deepest]

Init ==
    /\ projects = <<>>
    /\ project_phases = <<>>
    /\ phase_stakeholders = <<>>
    /\ deliverables = <<>>
    /\ activity_logs = <<>>
    /\ notifications = EmptyBag
    /\ today = 1
    /\ result = [op |-> "init", error |-> "none", ret |-> NULL, value |-> FALSE,
                 depth |-> 0]
    /\ calls = [p \in Procs |-> Idle]
    /\ deliverable_versions = <<>>

\* The rows a query without ORDER BY may return first where that matters:
\* the phases that share project and phase_order with another phase.
RowChoices ==
    LET twins == {ph \in DOMAIN project_phases :
                    \E other \in DOMAIN project_phases :
                        /\ other # ph
                        /\ project_phases[other].project_id = project_phases[ph].project_id
                        /\ project_phases[other].phase_order = project_phases[ph].phase_order}
    IN  IF twins = {} THEN {NULL} ELSE twins

Commit(db) ==
    /\ projects' = db.projects
    /\ project_phases' = db.project_phases
    /\ activity_logs' = db.activity_logs
    /\ notifications' = db.notifications

\* POST /api/projects with a template whose phases carry `counts`
\* deliverables each.
CreateProjectFrom(pmId, userId, template, counts, stakeholders) ==
    LET projectId == Len(projects) + 1
        db1 == [DB EXCEPT !.projects = Append(@, NewProject(pmId)),
                          !.project_phases = @ \o NewPhases(projectId, template)]
        db2 == logActivity(db1, projectId, userId, "project_created",
                           Description(projectId, "", ""))
        rows == NewStakeholders(Len(project_phases) + 1, stakeholders)
        items == NewDeliverables(projectId, Len(project_phases) + 1, counts)
    IN  /\ Len(projects) < MaxProjects
        /\ Len(db2.project_phases) <= MaxPhases
        /\ Len(phase_stakeholders) + Len(rows) <= MaxStakeholders
        /\ Len(deliverables) + Len(items) <= MaxDeliverables
        /\ Len(db2.activity_logs) <= MaxLog
        /\ Commit(db2)
        /\ phase_stakeholders' = phase_stakeholders \o rows
        /\ deliverables' = deliverables \o items
        /\ result' = Result("createProject",
                            Outcome(db2, NoError, Row(projectId, "draft")))
        /\ UNCHANGED <<deliverable_versions, today, calls>>

\* A project from a template without deliverables.
CreateProject ==
    \E pmId \in Managers, userId \in Callers, template \in Templates :
    \E stakeholders \in StakeholderRequests(Len(template)) :
        CreateProjectFrom(pmId, userId, template,
                          [i \in 1..Len(template) |-> 0], stakeholders)

\* A project from a template without phases.
CreateProjectWithoutPhases ==
    \E pmId \in Managers, userId \in Callers :
        CreateProjectFrom(pmId, userId, <<>>, <<>>, <<>>)

\* A project from a template with deliverables.
CreateProjectWithDeliverables ==
    \E pmId \in Managers, userId \in Callers, template \in Templates :
    \E counts \in [1..Len(template) -> 0..MaxDeliverables] :
        CreateProjectFrom(pmId, userId, template, counts,
                          [i \in 1..Len(template) |-> <<>>])

TransitionProjectStatusTo(targets) ==
    \E projectId \in ProjectIdInputs, newStatus \in targets,
       userId \in Callers, pick \in RowChoices :
        LET out == transitionProjectStatus(DB, projectId, newStatus, userId, pick)
        IN  /\ Len(out.db.activity_logs) <= MaxLog
            /\ Commit(out.db)
            /\ result' = Result("transitionProjectStatus", out)
            /\ UNCHANGED <<deliverable_versions, phase_stakeholders, deliverables, today, calls>>

\* A transition to any status, and to a string that is no status.
TransitionProjectStatus == TransitionProjectStatusTo(ProjectStatusInputs)

\* An activation.
ActivateProject == TransitionProjectStatusTo({"active"})

ProgressPhase ==
    \E phaseId \in PhaseIdInputs, newStatus \in PhaseStatusInputs,
       userId \in Callers, pick \in RowChoices :
        LET out == progressPhase(DB, phaseId, newStatus, userId, pick)
        IN  /\ Len(out.db.activity_logs) <= MaxLog
            /\ Commit(out.db)
            /\ result' = Result("progressPhase", out)
            /\ UNCHANGED <<deliverable_versions, phase_stakeholders, deliverables, today, calls>>

AutoProgressToNextPhase ==
    \E projectId \in ProjectIdInputs, currentPhaseOrder \in OrderInputs,
       pick \in RowChoices :
        LET out == autoProgressToNextPhase(DB, projectId, currentPhaseOrder, pick)
        IN  /\ Len(out.db.activity_logs) <= MaxLog
            /\ Commit(out.db)
            /\ result' = Result("autoProgressToNextPhase", out)
            /\ UNCHANGED <<deliverable_versions, phase_stakeholders, deliverables, today, calls>>

\* PUT /api/projects/:id
UpdateProject ==
    \E id \in ProjectIdInputs, userId \in Callers, admin \in BOOLEAN,
       status \in ProjectStatusInputs \cup {Absent}, other \in BOOLEAN :
        LET out == putProject(DB, id, [userId |-> userId, admin |-> admin],
                              [status |-> status, other |-> other])
        IN  /\ Len(out.db.activity_logs) <= MaxLog
            /\ Commit(out.db)
            /\ result' = Result("updateProject", out)
            /\ UNCHANGED <<deliverable_versions, phase_stakeholders, deliverables, today, calls>>

\* POST /api/deliverables: the INSERT fails on a project or phase that does
\* not exist (foreign keys), and the handler answers 500.
ForeignKeyViolation == [kind |-> "ForeignKeyViolation", from |-> "", to |-> ""]
BadRequest == [kind |-> "BadRequest", from |-> "", to |-> ""]

CreateDeliverableWith(assignees, dueDates) ==
    \E projectId \in ProjectIdInputs, phaseId \in PhaseIdInputs,
       assignedTo \in assignees, dueDate \in dueDates, userId \in Callers :
        IF projectId \in DOMAIN projects /\ phaseId \in DOMAIN project_phases
        THEN /\ Len(deliverables) < MaxDeliverables
             /\ Len(activity_logs) < MaxLog
             /\ deliverables' = Append(deliverables,
                                       NewDeliverable(projectId, phaseId, assignedTo,
                                                      dueDate))
             /\ activity_logs' = logActivity(DB, projectId, userId, "deliverable_created",
                                    Description(Len(deliverables) + 1, "", "")).activity_logs
             /\ result' = Result("createDeliverable",
                                 Outcome(DB, NoError, Row(Len(deliverables) + 1, "pending")))
             /\ UNCHANGED <<deliverable_versions, projects, project_phases, phase_stakeholders,
                            notifications, today, calls>>
        ELSE /\ result' = Result("createDeliverable",
                                 Outcome(DB, ForeignKeyViolation, NoRow))
             /\ UNCHANGED <<deliverable_versions, projects, project_phases, phase_stakeholders, deliverables,
                            activity_logs, notifications, today, calls>>

\* A deliverable without due date.
CreateDeliverable == CreateDeliverableWith({NULL} \cup Managers, {NULL})

\* A deliverable with a due date, with or without assignee.
CreateDeliverableDue == CreateDeliverableWith({NULL} \cup Managers, DateInputs)

\* PATCH /api/deliverables/:id/status
UpdateDeliverableStatusTo(statuses) ==
    \E id \in 1..(MaxDeliverables + 1), status \in statuses, userId \in Callers :
        IF id \notin DOMAIN deliverables
        THEN /\ result' = Result("updateDeliverableStatus", Outcome(DB, NotFound, NoRow))
             /\ UNCHANGED <<deliverable_versions, projects, project_phases, phase_stakeholders, deliverables,
                            activity_logs, notifications, today, calls>>
        ELSE IF status \notin DeliverableStatus
        THEN /\ result' = Result("updateDeliverableStatus", Outcome(DB, BadRequest, NoRow))
             /\ UNCHANGED <<deliverable_versions, projects, project_phases, phase_stakeholders, deliverables,
                            activity_logs, notifications, today, calls>>
        ELSE /\ Len(activity_logs) < MaxLog
             /\ deliverables' = [deliverables EXCEPT ![id].status = status]
             /\ activity_logs' = logActivity(DB, deliverables[id].project_id, userId,
                                    "deliverable_updated",
                                    Description(id, "", status)).activity_logs
             /\ result' = Result("updateDeliverableStatus",
                                 Outcome(DB, NoError, Row(id, status)))
             /\ UNCHANGED <<deliverable_versions, projects, project_phases, phase_stakeholders,
                            notifications, today, calls>>

\* An update to any status, and to a string that is no status.
UpdateDeliverableStatus == UpdateDeliverableStatusTo(DeliverableStatus \cup {"completed"})

\* The verdict of a review.
ReviewDeliverable == UpdateDeliverableStatusTo({"approved", "rejected"})

CheckPhaseCompletion ==
    \E phaseId \in PhaseIdInputs :
        /\ result' = [op |-> "checkPhaseCompletion", error |-> "none", ret |-> NULL,
                      value |-> checkPhaseCompletion(phaseId), depth |-> 1]
        /\ UNCHANGED <<deliverable_versions, projects, project_phases, phase_stakeholders, deliverables,
                       activity_logs, notifications, today, calls>>

\* The sinks a call may meet with some INSERT rejected: the users it is
\* rejected for, and the users a stakeholder loop reaches before them.
Sinks ==
    LET stakeholders == {phase_stakeholders[i].user_id : i \in DOMAIN phase_stakeholders}
    IN  {s \in [down : SUBSET Users \ {{}}, before : SUBSET stakeholders] :
            s.before \cap s.down = {}}

\* transitionProjectStatus in which the notification sink rejects an INSERT.
TransitionProjectStatusSinkDown ==
    \E projectId \in ProjectIdInputs, newStatus \in ProjectStatusInputs,
       userId \in Callers, pick \in RowChoices, sink \in Sinks :
        LET out == transitionProjectStatus(SinkDown(sink.down, sink.before),
                                           projectId, newStatus, userId, pick)
        IN  /\ out.db.thrown
            /\ Len(out.db.activity_logs) <= MaxLog
            /\ Commit(out.db)
            /\ result' = Result("transitionProjectStatus", out)
            /\ UNCHANGED <<deliverable_versions, phase_stakeholders, deliverables, today, calls>>

\* progressPhase in which the notification sink rejects an INSERT.
ProgressPhaseSinkDown ==
    \E phaseId \in PhaseIdInputs, newStatus \in PhaseStatusInputs,
       userId \in Callers, pick \in RowChoices, sink \in Sinks :
        LET out == progressPhase(SinkDown(sink.down, sink.before),
                                 phaseId, newStatus, userId, pick)
        IN  /\ out.db.thrown
            /\ Len(out.db.activity_logs) <= MaxLog
            /\ Commit(out.db)
            /\ result' = Result("progressPhase", out)
            /\ UNCHANGED <<deliverable_versions, phase_stakeholders, deliverables, today, calls>>

\* A request arrives and its handler starts the operation.
Call(p) ==
    /\ calls[p].pc = "idle"
    /\ \/ \E projectId \in ProjectIdInputs, newStatus \in ProjectStatusInputs,
             userId \in Callers :
             calls' = [calls EXCEPT ![p] =
                         [Idle EXCEPT !.pc = "load", !.op = "transitionProjectStatus",
                                      !.id = projectId, !.newStatus = newStatus,
                                      !.userId = userId]]
       \/ \E phaseId \in PhaseIdInputs, newStatus \in PhaseStatusInputs,
             userId \in Callers :
             calls' = [calls EXCEPT ![p] =
                         [Idle EXCEPT !.pc = "load", !.op = "progressPhase",
                                      !.id = phaseId, !.newStatus = newStatus,
                                      !.userId = userId]]
    /\ UNCHANGED <<deliverable_versions, projects, project_phases, phase_stakeholders, deliverables,
                   activity_logs, notifications, today, result>>

\* SELECT * FROM projects / project_phases WHERE id = $1
Load(p) ==
    LET call == calls[p]
    IN  /\ call.pc = "load"
        /\ calls' = [calls EXCEPT ![p] =
                IF call.id \notin DOMAIN RowsOf(call)
                THEN Throw(call, "load", NotFound)
                ELSE [Proceed(call, "load") EXCEPT
                         !.currentStatus = RowsOf(call)[call.id].status]]
        /\ UNCHANGED <<deliverable_versions, projects, project_phases, phase_stakeholders, deliverables,
                       activity_logs, notifications, today, result>>

\* The check of the loaded status against the registry.
Validate(p) ==
    LET call == calls[p]
    IN  /\ call.pc = "validate"
        /\ calls' = [calls EXCEPT ![p] =
                IF isLegal(StatesOf(call), call.currentStatus, call.newStatus)
                THEN Proceed(call, "validate")
                ELSE Throw(call, "validate",
                           InvalidTransition(call.currentStatus, call.newStatus))]
        /\ UNCHANGED <<deliverable_versions, projects, project_phases, phase_stakeholders, deliverables,
                       activity_logs, notifications, today, result>>

\* UPDATE ... SET status = $1 WHERE id = $2: whatever the status is by now.
Write(p) ==
    LET call == calls[p]
    IN  /\ call.pc = "write"
        /\ Commit(IF IsProjectCall(call)
                  THEN [DB EXCEPT !.projects[call.id].status = call.newStatus]
                  ELSE updatePhaseStatus(DB, call.id, call.newStatus, NoDates))
        /\ calls' = [calls EXCEPT ![p] = Proceed(call, "write")]
        /\ UNCHANGED <<deliverable_versions, phase_stakeholders, deliverables, today, result>>

\* await logActivity(...)
Log(p) ==
    LET call == calls[p]
        db == IF IsProjectCall(call)
              THEN logActivity(DB, call.id, call.userId, "project_status_change",
                               Description(call.id, call.currentStatus, call.newStatus))
              ELSE logActivity(DB, project_phases[call.id].project_id, call.userId,
                               "phase_status_change",
                               Description(call.id, "", call.newStatus))
    IN  /\ call.pc = "log"
        /\ Len(db.activity_logs) <= MaxLog
        /\ Commit(db)
        /\ calls' = [calls EXCEPT ![p] = Proceed(call, "log")]
        /\ UNCHANGED <<deliverable_versions, phase_stakeholders, deliverables, today, result>>

\* await handleProjectStatusChange(...) / handlePhaseStatusChange(...)
Cascade(p) ==
    \E pick \in RowChoices :
        LET call == calls[p]
            out == IF IsProjectCall(call)
                   THEN handleProjectStatusChange(DB, call.id, projects[call.id],
                                                  call.newStatus, call.userId, pick)
                   ELSE handlePhaseStatusChange(DB, call.id, project_phases[call.id],
                                                call.newStatus, call.userId, pick)
        IN  /\ call.pc = "cascade"
            /\ Len(out.db.activity_logs) <= MaxLog
            /\ Commit(out.db)
            /\ calls' = [calls EXCEPT ![p] =
                    IF out.error # NoError THEN Throw(call, "cascade", out.error)
                    ELSE Proceed(call, "cascade")]
            /\ UNCHANGED <<deliverable_versions, phase_stakeholders, deliverables, today, result>>

(***************************************************************************)
(* The completion cascade, await by await: autoProgressToNextPhase selects *)
(* the pending next phase, starts it and notifies its stakeholders, logs   *)
(* the start; handlePhaseStatusChange then counts the completed phases.    *)
(***************************************************************************)
\* A request for progressPhase(phaseId, 'completed', userId) arrives.
CallComplete(p) ==
    /\ calls[p].pc = "idle"
    /\ \E phaseId \in PhaseIdInputs, userId \in Callers :
          calls' = [calls EXCEPT ![p] =
                      [Idle EXCEPT !.pc = "load", !.op = "progressPhase",
                                   !.id = phaseId, !.newStatus = "completed",
                                   !.userId = userId]]
    /\ UNCHANGED <<deliverable_versions, projects, project_phases, phase_stakeholders, deliverables,
                   activity_logs, notifications, today, result>>

\* The call is a progressPhase to completed that has reached its cascade.
AtCompletionCascade(call) ==
    /\ call.pc = "cascade"
    /\ call.op = "progressPhase"
    /\ call.newStatus = "completed"

\* phase.project_id and phase.phase_order, the arguments of the call's
\* autoProgressToNextPhase.
ProjectOf(call) == project_phases[call.id].project_id
OrderOf(call) == project_phases[call.id].phase_order

\* SELECT ... WHERE project_id = $1 AND phase_order = $2 AND status = 'pending'
SelectNext(p) ==
    \E pick \in RowChoices :
        LET call == calls[p]
            rows == {ph \in DOMAIN project_phases :
                        /\ project_phases[ph].project_id = ProjectOf(call)
                        /\ project_phases[ph].phase_order = OrderOf(call) + 1
                        /\ project_phases[ph].status = "pending"}
        IN  /\ AtCompletionCascade(call)
            /\ calls' = [calls EXCEPT ![p] =
                    [call EXCEPT !.pc = "start", !.steps = Append(@, "select"),
                                 !.nextPhase = IF rows = {} THEN NULL
                                               ELSE FirstRow(rows, pick)]]
            /\ UNCHANGED <<deliverable_versions, projects, project_phases, phase_stakeholders, deliverables,
                           activity_logs, notifications, today, result>>

\* if (rows.length > 0): updatePhaseStatus(nextPhase.id, 'in_progress') and
\* the notifications to the stakeholders of the selected phase.
StartNext(p) ==
    LET call == calls[p]
        db == IF call.nextPhase = NULL THEN DB
              ELSE NotifyStakeholders(
                       updatePhaseStatus(DB, call.nextPhase, "in_progress", NoDates),
                       call.nextPhase, "phase_start", ProjectOf(call))
    IN  /\ call.pc = "start"
        /\ Commit(db)
        /\ calls' = [calls EXCEPT ![p] =
                [call EXCEPT !.pc = "logstart", !.steps = Append(@, "start")]]
        /\ UNCHANGED <<deliverable_versions, phase_stakeholders, deliverables, today, result>>

\* The phase_auto_start log entry, then the count of the completed phases
\* with the nested project transition.
LogNext(p) ==
    \E pick \in RowChoices :
        LET call == calls[p]
            projectId == ProjectOf(call)
            db1 == IF call.nextPhase = NULL THEN DB
                   ELSE logActivity(DB, projectId, NULL, "phase_auto_start",
                                    Description(call.nextPhase, "", ""))
            all == {ph \in DOMAIN db1.project_phases :
                        db1.project_phases[ph].project_id = projectId}
            total == Cardinality(all)
            completed == Cardinality({ph \in all :
                                         db1.project_phases[ph].status = "completed"})
            out == IF total = completed
                   THEN Returned(transitionProjectStatus(Nested(db1), projectId,
                                                         "completed", call.userId, pick))
                   ELSE Outcome(db1, NoError, NoRow)
        IN  /\ call.pc = "logstart"
            /\ Len(out.db.activity_logs) <= MaxLog
            /\ Commit(out.db)
            /\ calls' = [calls EXCEPT ![p] =
                    [call EXCEPT !.pc = "done", !.steps = Append(@, "logstart"),
                                 !.error = out.error.kind]]
            /\ UNCHANGED <<deliverable_versions, phase_stakeholders, deliverables, today, result>>

\* createProjectPhase of a first phase with an end date: the INSERT fails on
\* a project that does not exist (foreign key).
CreateProjectPhase ==
    \E projectId \in ProjectIdInputs, phaseOrder \in {1}, endDate \in DateInputs :
        IF projectId \in DOMAIN projects
        THEN /\ Len(project_phases) < MaxPhases
             /\ Commit(createProjectPhase(DB, [projectId |-> projectId,
                                               phaseOrder |-> phaseOrder,
                                               endDate |-> endDate]))
             /\ result' = Result("createProjectPhase",
                                 Outcome(DB, NoError,
                                         Row(Len(project_phases) + 1, "pending")))
             /\ UNCHANGED <<deliverable_versions, phase_stakeholders, deliverables, today, calls>>
        ELSE /\ result' = Result("createProjectPhase",
                                 Outcome(DB, ForeignKeyViolation, NoRow))
             /\ UNCHANGED <<deliverable_versions, projects, project_phases, phase_stakeholders, deliverables,
                            activity_logs, notifications, today, calls>>

\* The periodic job calls checkDeadlines.
CheckDeadlines ==
    LET out == checkDeadlines(DB)
    IN  /\ BagCardinality(out.db.notifications) <= MaxNotifications
        /\ Commit(out.db)
        /\ result' = Result("checkDeadlines", out)
        /\ UNCHANGED <<deliverable_versions, phase_stakeholders, deliverables, today, calls>>

(***************************************************************************)
(* The two handlers of routes/deliverables.js that change a deliverable's  *)
(* content, await by await: PUT /api/deliverables/:id and                  *)
(* POST /api/deliverables/:id/generate.  Contents are 1..NumContents, NULL *)
(* a body without content.                                                 *)
(***************************************************************************)
Contents == 1..NumContents

\* SELECT COALESCE(MAX(version_number), 0) FROM deliverable_versions
\* WHERE deliverable_id = $1
getLatestVersionNumber(deliverableId) ==
    LET numbers == {deliverable_versions[v].version_number :
                       v \in {w \in DOMAIN deliverable_versions :
                                 deliverable_versions[w].deliverable_id = deliverableId}}
    IN  IF numbers = {} THEN 0
        ELSE CHOOSE n \in numbers : \A m \in numbers : m <= n

\* INSERT INTO deliverable_versions (deliverable_id, version_number, content, ...)
createDeliverableVersion(versionData) ==
    Append(deliverable_versions,
           [deliverable_id |-> versionData.deliverableId,
            version_number |-> versionData.versionNumber,
            content |-> versionData.content])

IsGenerateCall(call) == call.op = "generateDeliverable"

\* A PUT /api/deliverables/:id arrives, its body with or without content.
CallPut(p) ==
    /\ calls[p].pc = "idle"
    /\ \E id \in 1..(MaxDeliverables + 1), content \in {NULL} \cup Contents,
          userId \in Callers :
          calls' = [calls EXCEPT ![p] =
                      [Idle EXCEPT !.pc = "get", !.op = "putDeliverable", !.id = id,
                                   !.content = content, !.userId = userId]]
    /\ UNCHANGED <<projects, project_phases, phase_stakeholders, deliverables,
                   activity_logs, notifications, today, result, deliverable_versions>>

\* A POST /api/deliverables/:id/generate arrives.
CallGenerate(p) ==
    /\ calls[p].pc = "idle"
    /\ \E id \in 1..(MaxDeliverables + 1), userId \in Callers :
          calls' = [calls EXCEPT ![p] =
                      [Idle EXCEPT !.pc = "get", !.op = "generateDeliverable",
                                   !.id = id, !.userId = userId]]
    /\ UNCHANGED <<projects, project_phases, phase_stakeholders, deliverables,
                   activity_logs, notifications, today, result, deliverable_versions>>

\* getDeliverableById, the 404 of a missing deliverable, and in PUT the test
\* req.body.content && req.body.content !== deliverable.content.
GetDeliverable(p) ==
    LET call == calls[p]
    IN  /\ call.pc = "get"
        /\ calls' = [calls EXCEPT ![p] =
                IF call.id \notin DOMAIN deliverables
                THEN [call EXCEPT !.pc = "done", !.steps = Append(@, "get"),
                                  !.error = NotFound.kind]
                ELSE [call EXCEPT
                         !.steps = Append(@, "get"),
                         !.loaded = deliverables[call.id].content,
                         !.pc = IF IsGenerateCall(call) THEN "generate"
                                ELSE IF /\ call.content # NULL
                                        /\ call.content # deliverables[call.id].content
                                     THEN "latest"
                                     ELSE "update"]]
        /\ UNCHANGED <<projects, project_phases, phase_stakeholders, deliverables,
                       activity_logs, notifications, today, result, deliverable_versions>>

\* await generateDeliverable(...): the service answers with some content or
\* throws.
Generate(p) ==
    LET call == calls[p]
    IN  /\ call.pc = "generate"
        /\ \/ \E content \in Contents :
                 calls' = [calls EXCEPT ![p] =
                             [call EXCEPT !.pc = "update", !.content = content,
                                          !.steps = Append(@, "generate")]]
           \/ calls' = [calls EXCEPT ![p] =
                          [call EXCEPT !.pc = "done", !.error = "GenerationFailed",
                                       !.steps = Append(@, "generate")]]
        /\ UNCHANGED <<projects, project_phases, phase_stakeholders, deliverables,
                       activity_logs, notifications, today, result, deliverable_versions>>

\* const latestVersion = await getLatestVersionNumber(deliverable.id)
LatestVersion(p) ==
    LET call == calls[p]
    IN  /\ call.pc = "latest"
        /\ calls' = [calls EXCEPT ![p] =
                [call EXCEPT !.pc = "insert", !.steps = Append(@, "latest"),
                             !.latestVersion = getLatestVersionNumber(call.id)]]
        /\ UNCHANGED <<projects, project_phases, phase_stakeholders, deliverables,
                       activity_logs, notifications, today, result, deliverable_versions>>

\* await createDeliverableVersion({versionNumber: latestVersion + 1, ...})
InsertVersion(p) ==
    LET call == calls[p]
    IN  /\ call.pc = "insert"
        /\ deliverable_versions' =
               createDeliverableVersion([deliverableId |-> call.id,
                                         versionNumber |-> call.latestVersion + 1,
                                         content |-> call.content])
        /\ calls' = [calls EXCEPT ![p] =
                [call EXCEPT !.pc = IF IsGenerateCall(call) THEN "logupdate"
                                    ELSE "update",
                             !.steps = Append(@, "insert")]]
        /\ UNCHANGED <<projects, project_phases, phase_stakeholders, deliverables,
                       activity_logs, notifications, today, result>>

\* await updateDeliverable(...): PUT writes the body and is rejected for a
\* body without a field; generate writes the content and status 'review'.
UpdateDeliverable(p) ==
    LET call == calls[p]
    IN  /\ call.pc = "update"
        /\ IF call.content = NULL
           THEN /\ calls' = [calls EXCEPT ![p] =
                       [call EXCEPT !.pc = "done", !.error = NoValidFields.kind,
                                    !.steps = Append(@, "update")]]
                /\ UNCHANGED deliverables
           ELSE /\ deliverables' =
                       IF IsGenerateCall(call)
                       THEN [deliverables EXCEPT ![call.id].content = call.content,
                                                 ![call.id].status = "review"]
                       ELSE [deliverables EXCEPT ![call.id].content = call.content]
                /\ calls' = [calls EXCEPT ![p] =
                       [call EXCEPT !.pc = IF IsGenerateCall(call) THEN "latest"
                                           ELSE "logupdate",
                                    !.steps = Append(@, "update")]]
        /\ UNCHANGED <<projects, project_phases, phase_stakeholders,
                       activity_logs, notifications, today, result, deliverable_versions>>

\* await logActivity(..., 'deliverable_updated' / 'deliverable_generated', ...)
LogUpdate(p) ==
    LET call == calls[p]
        db == logActivity(DB, deliverables[call.id].project_id, call.userId,
                          IF IsGenerateCall(call) THEN "deliverable_generated"
                          ELSE "deliverable_updated",
                          Description(call.id, "", ""))
    IN  /\ call.pc = "logupdate"
        /\ Len(db.activity_logs) <= MaxLog
        /\ Commit(db)
        /\ calls' = [calls EXCEPT ![p] =
                [call EXCEPT !.pc = "done", !.steps = Append(@, "logupdate")]]
        /\ UNCHANGED <<phase_stakeholders, deliverables, today, result,
                       deliverable_versions>>

\* The clock behind `new Date()`: a day passes.
Tick ==
    /\ today < MaxDay
    /\ today' = today + 1
    /\ result' = [op |-> "tick", error |-> "none", ret |-> NULL, value |-> FALSE,
                  depth |-> 0]
    /\ UNCHANGED <<deliverable_versions, projects, project_phases, phase_stakeholders, deliverables,
                   activity_logs, notifications, calls>>

\* The engine and project creation.
Next ==
    \/ CreateProject
    \/ TransitionProjectStatus
    \/ ProgressPhase
    \/ AutoProgressToNextPhase

Spec == Init /\ [][Next]_vars

\* The REST API: the engine behind its routes and the generic project update.
NextApi ==
    \/ CreateProject
    \/ TransitionProjectStatus
    \/ UpdateProject

SpecApi == Init /\ [][NextApi]_vars

\* Deliverables and the completion check over them.
NextDeliverables ==
    \/ CreateProjectWithDeliverables
    \/ CreateDeliverable
    \/ UpdateDeliverableStatus
    \/ CheckPhaseCompletion

SpecDeliverables == Init /\ [][NextDeliverables]_vars

\* The engine with a notification sink that may reject INSERTs.
NextSink ==
    \/ CreateProject
    \/ TransitionProjectStatus
    \/ ProgressPhase
    \/ TransitionProjectStatusSinkDown
    \/ ProgressPhaseSinkDown

SpecSink == Init /\ [][NextSink]_vars

\* The engine's two transition operations over several days.
NextDates ==
    \/ CreateProject
    \/ TransitionProjectStatus
    \/ ProgressPhase
    \/ Tick

SpecDates == Init /\ [][NextDates]_vars

\* Projects with deliverables, project transitions and deliverable status
\* updates, served as long as requests arrive: no explicit progressPhase.
NextAutomation ==
    \/ CreateProjectWithDeliverables
    \/ TransitionProjectStatus
    \/ UpdateDeliverableStatus

SpecAutomation == Init /\ [][NextAutomation]_vars /\ WF_vars(NextAutomation)

\* Phases and deliverables with dates, and the deadline sweep over them.
NextDeadlines ==
    \/ CreateProjectWithoutPhases
    \/ CreateProjectPhase
    \/ ActivateProject
    \/ CreateDeliverableDue
    \/ ReviewDeliverable
    \/ CheckDeadlines

SpecDeadlines == Init /\ [][NextDeadlines]_vars

\* Every operation the engine exports, called one at a time.
NextEngine ==
    \/ CreateProject
    \/ TransitionProjectStatus
    \/ ProgressPhase
    \/ AutoProgressToNextPhase
    \/ CheckPhaseCompletion
    \/ CheckDeadlines

SpecEngine == Init /\ [][NextEngine]_vars

\* Requests served concurrently: each call advances one await at a time.
NextConcurrent ==
    \/ CreateProject
    \/ \E p \in Procs : Call(p)
    \/ \E p \in Procs : Load(p)
    \/ \E p \in Procs : Validate(p)
    \/ \E p \in Procs : Write(p)
    \/ \E p \in Procs : Log(p)
    \/ \E p \in Procs : Cascade(p)

SpecConcurrent == Init /\ [][NextConcurrent]_vars

\* Concurrent completions of phases, the completion cascade advancing one
\* await at a time.
NextAutoStart ==
    \/ CreateProject
    \/ ActivateProject
    \/ \E p \in Procs : CallComplete(p)
    \/ \E p \in Procs : Load(p)
    \/ \E p \in Procs : Validate(p)
    \/ \E p \in Procs : Write(p)
    \/ \E p \in Procs : Log(p)
    \/ \E p \in Procs : SelectNext(p)
    \/ \E p \in Procs : StartNext(p)
    \/ \E p \in Procs : LogNext(p)

SpecAutoStart == Init /\ [][NextAutoStart]_vars

\* Concurrent content updates of deliverables, one await at a time.
NextVersions ==
    \/ CreateProjectWithDeliverables
    \/ \E p \in Procs : CallPut(p)
    \/ \E p \in Procs : CallGenerate(p)
    \/ \E p \in Procs : GetDeliverable(p)
    \/ \E p \in Procs : Generate(p)
    \/ \E p \in Procs : LatestVersion(p)
    \/ \E p \in Procs : InsertVersion(p)
    \/ \E p \in Procs : UpdateDeliverable(p)
    \/ \E p \in Procs : LogUpdate(p)

SpecVersions == Init /\ [][NextVersions]_vars

(***************************************************************************)
(* The registry as the specification states it.                            *)
(***************************************************************************)
RegistryProjectEdges ==
    [draft |-> {"active", "cancelled"},
     active |-> {"on_hold", "completed", "cancelled"},
     on_hold |-> {"active", "cancelled"},
     completed |-> {},
     cancelled |-> {}]

RegistryPhaseEdges ==
    [pending |-> {"in_progress"},
     in_progress |-> {"completed", "blocked"},
     blocked |-> {"in_progress"},
     completed |-> {}]

LastLog == activity_logs[Len(activity_logs)]
PhasesOf(projectId) ==
    {ph \in DOMAIN project_phases : project_phases[ph].project_id = projectId}
PhasesAt(projectId, order) ==
    {ph \in PhasesOf(projectId) : project_phases[ph].phase_order = order}

(***************************************************************************)
(* C1: under the engine's operations, called one at a time, every change   *)
(* of a project's persisted status goes along an edge of the project       *)
(* table, the change made by progressPhase's auto-completion included.     *)
(***************************************************************************)
C1_ProjectStatusFollowsEdges ==
    [][\A p \in DOMAIN projects :
          projects'[p].status # projects[p].status
              => projects'[p].status \in RegistryProjectEdges[projects[p].status]]_vars

\* progressPhase has just auto-completed a project.
C1_Witness ==
    /\ result.op = "progressPhase"
    /\ result.error = "none"
    /\ Len(activity_logs) > 0
    /\ LastLog.activity_type = "project_status_change"
    /\ LastLog.description.from = "active"
    /\ projects[LastLog.project_id].status = "completed"

(***************************************************************************)
(* C2: a project's persisted status changes only in a call of the          *)
(* engine's transition operation, and only along an edge of the project    *)
(* table; the generic project update changes no status.                    *)
(***************************************************************************)
C2_StatusOnlyThroughEngine ==
    [][\A p \in DOMAIN projects :
          projects'[p].status # projects[p].status
              => /\ result'.op = "transitionProjectStatus"
                 /\ projects'[p].status \in RegistryProjectEdges[projects[p].status]]_vars

(***************************************************************************)
(* C3: under the engine's operations, called one at a time, every change   *)
(* of a phase's persisted status goes along an edge of the phase table,    *)
(* the direct writes of the cascades included.                             *)
(***************************************************************************)
C3_PhaseStatusFollowsEdges ==
    [][\A ph \in DOMAIN project_phases :
          project_phases'[ph].status # project_phases[ph].status
              => project_phases'[ph].status
                     \in RegistryPhaseEdges[project_phases[ph].status]]_vars

\* A project activation has started a phase by its direct write: a phase is
\* in progress and nothing in the log says a phase call did it.
C3_Witness ==
    /\ result.op = "transitionProjectStatus"
    /\ result.error = "none"
    /\ \E ph \in DOMAIN project_phases : project_phases[ph].status = "in_progress"
    /\ \A i \in DOMAIN activity_logs :
          activity_logs[i].activity_type
              \notin {"phase_status_change", "phase_auto_start"}

(***************************************************************************)
(* C4: for every pair (current, target) that is no edge of the table, the  *)
(* call on an entity in status current fails with InvalidTransition        *)
(* naming current and target, and leaves projects, phases, activity log    *)
(* and notifications as they were.                                         *)
(***************************************************************************)
C4_IllegalTransitionFails ==
    /\ \A projectId \in DOMAIN projects, newStatus \in ProjectStatusInputs,
          userId \in Callers, pick \in RowChoices :
          newStatus \notin RegistryProjectEdges[projects[projectId].status]
              => transitionProjectStatus(DB, projectId, newStatus, userId, pick)
                    = Outcome(DB, InvalidTransition(projects[projectId].status, newStatus),
                              NoRow)
    /\ \A phaseId \in DOMAIN project_phases, newStatus \in PhaseStatusInputs,
          userId \in Callers, pick \in RowChoices :
          newStatus \notin RegistryPhaseEdges[project_phases[phaseId].status]
              => progressPhase(DB, phaseId, newStatus, userId, pick)
                    = Outcome(DB, InvalidTransition(project_phases[phaseId].status,
                                                    newStatus),
                              NoRow)

\* An illegal phase transition was refused in a database that holds another
\* project, phases in progress, log entries and notifications.
C4_Witness ==
    /\ result.op = "progressPhase"
    /\ result.error = "InvalidTransition"
    /\ Len(projects) = 2
    /\ \A ph \in DOMAIN project_phases : project_phases[ph].status = "in_progress"
    /\ Len(project_phases) = 2
    /\ notifications # EmptyBag

(***************************************************************************)
(* C5: for every edge (current, target) of the table and every state of    *)
(* the other entities, the call on an entity in status current returns     *)
(* the updated record, raises no error, and the persisted status is        *)
(* target.                                                                 *)
(***************************************************************************)
C5_LegalTransitionSucceeds ==
    /\ \A projectId \in DOMAIN projects, newStatus \in ProjectStatusInputs,
          userId \in Callers, pick \in RowChoices :
          newStatus \in RegistryProjectEdges[projects[projectId].status]
              => LET out == transitionProjectStatus(DB, projectId, newStatus, userId, pick)
                 IN  /\ out.error = NoError
                     /\ out.ret = Row(projectId, newStatus)
                     /\ out.db.projects[projectId].status = newStatus
    /\ \A phaseId \in DOMAIN project_phases, newStatus \in PhaseStatusInputs,
          userId \in Callers, pick \in RowChoices :
          newStatus \in RegistryPhaseEdges[project_phases[phaseId].status]
              => LET out == progressPhase(DB, phaseId, newStatus, userId, pick)
                 IN  /\ out.error = NoError
                     /\ out.ret = Row(phaseId, newStatus)
                     /\ out.db.project_phases[phaseId].status = newStatus

(***************************************************************************)
(* C6: on a completed or cancelled project, and on a completed phase, the  *)
(* call fails with InvalidTransition whatever the target, and the          *)
(* persisted status stays.                                                 *)
(***************************************************************************)
C6_TerminalStatusRefusesAll ==
    /\ \A projectId \in DOMAIN projects, newStatus \in ProjectStatusInputs,
          userId \in Callers, pick \in RowChoices :
          projects[projectId].status \in {"completed", "cancelled"}
              => LET out == transitionProjectStatus(DB, projectId, newStatus, userId, pick)
                 IN  /\ out.error.kind = "InvalidTransition"
                     /\ out.db.projects[projectId].status = projects[projectId].status
    /\ \A phaseId \in DOMAIN project_phases, newStatus \in PhaseStatusInputs,
          userId \in Callers, pick \in RowChoices :
          project_phases[phaseId].status = "completed"
              => LET out == progressPhase(DB, phaseId, newStatus, userId, pick)
                 IN  /\ out.error.kind = "InvalidTransition"
                     /\ out.db.project_phases[phaseId].status = "completed"

\* A transition was asked of a completed project and refused.
C6_Witness ==
    /\ result.op = "transitionProjectStatus"
    /\ result.error = "InvalidTransition"
    /\ Len(projects) = 1
    /\ projects[1].status = "completed"

(***************************************************************************)
(* C7: on an id no project (no phase) has, the call fails with NotFound    *)
(* and writes nothing: no status, no log entry, no notification.           *)
(***************************************************************************)
C7_UnknownIdNotFound ==
    /\ \A projectId \in ProjectIdInputs \ DOMAIN projects,
          newStatus \in ProjectStatusInputs, userId \in Callers, pick \in RowChoices :
          transitionProjectStatus(DB, projectId, newStatus, userId, pick)
              = Outcome(DB, NotFound, NoRow)
    /\ \A phaseId \in PhaseIdInputs \ DOMAIN project_phases,
          newStatus \in PhaseStatusInputs, userId \in Callers, pick \in RowChoices :
          progressPhase(DB, phaseId, newStatus, userId, pick)
              = Outcome(DB, NotFound, NoRow)

\* A project transition on an unknown id was refused while projects exist.
C7_Witness ==
    /\ result.op = "transitionProjectStatus"
    /\ result.error = "NotFound"
    /\ Len(projects) > 0
    /\ Len(project_phases) > 0

(***************************************************************************)
(* C9: autoProgressToNextPhase(projectId, N) starts and returns a pending  *)
(* phase of the project at order N+1 when there is one; otherwise it       *)
(* returns nothing, raises nothing and writes nothing.                     *)
(***************************************************************************)
C9_AutoProgressOnlyPending ==
    \A projectId \in ProjectIdInputs, N \in OrderInputs, pick \in RowChoices :
        LET out == autoProgressToNextPhase(DB, projectId, N, pick)
            pending == {ph \in PhasesAt(projectId, N + 1) :
                           project_phases[ph].status = "pending"}
        IN  /\ out.error = NoError
            /\ pending = {} => out = Outcome(DB, NoError, NoRow)
            /\ pending # {} =>
                  /\ out.ret.id \in pending
                  /\ out.db.project_phases[out.ret.id].status = "in_progress"
                  /\ \A ph \in DOMAIN project_phases \ {out.ret.id} :
                        out.db.project_phases[ph] = project_phases[ph]
                  /\ out.db.projects = projects

\* autoProgressToNextPhase has started a phase and returned it.
C9_Witness ==
    /\ result.op = "autoProgressToNextPhase"
    /\ result.ret # NULL
    /\ project_phases[result.ret].status = "in_progress"
    /\ LastLog.activity_type = "phase_auto_start"

(***************************************************************************)
(* C10: activating a draft or on-hold project whose phase of order 1 is    *)
(* pending starts that phase, leaves the status of every other phase, and  *)
(* sends one notification, to the project's PM.                            *)
(***************************************************************************)
C10_ActivationStartsFirstPhase ==
    \A projectId \in DOMAIN projects, userId \in Callers, pick \in RowChoices :
    \A first \in PhasesAt(projectId, 1) :
        (/\ projects[projectId].status \in {"draft", "on_hold"}
         /\ PhasesAt(projectId, 1) = {first}
         /\ project_phases[first].status = "pending")
        => LET out == transitionProjectStatus(DB, projectId, "active", userId, pick)
           IN  /\ out.error = NoError
               /\ out.db.project_phases[first].status = "in_progress"
               /\ \A ph \in DOMAIN project_phases \ {first} :
                     out.db.project_phases[ph].status = project_phases[ph].status
               /\ out.db.notifications
                     = notifications (+) SetToBag({Notification(
                           projects[projectId].pm_id, "project_activated", projectId)})

\* An activation has started phase 1 of a project with a pending phase 2 and
\* a stakeholder on phase 1, and the one notification went to the PM.
C10_Witness ==
    /\ result.op = "transitionProjectStatus"
    /\ result.error = "none"
    /\ Len(projects) = 1
    /\ projects[1].status = "active"
    /\ Len(project_phases) = 2
    /\ project_phases[1].phase_order = 1
    /\ project_phases[1].status = "in_progress"
    /\ project_phases[2].phase_order = 2
    /\ project_phases[2].status = "pending"
    /\ \E i \in DOMAIN phase_stakeholders :
          /\ phase_stakeholders[i].phase_id = 1
          /\ phase_stakeholders[i].user_id # projects[1].pm_id
    /\ BagCardinality(notifications) = 1

(***************************************************************************)
(* C8: checkPhaseCompletion(phaseId) is true exactly when the phase has a  *)
(* deliverable and every deliverable of the phase is approved; the call    *)
(* changes no state.                                                       *)
(***************************************************************************)
DeliverablesOf(phaseId) ==
    {d \in DOMAIN deliverables : deliverables[d].phase_id = phaseId}

C8_CompletionIffAllApproved ==
    /\ [](\A phaseId \in PhaseIdInputs :
            checkPhaseCompletion(phaseId)
              <=> /\ \E d \in DeliverablesOf(phaseId) : TRUE
                  /\ \A d \in DeliverablesOf(phaseId) :
                        deliverables[d].status = "approved")
    /\ [][result'.op = "checkPhaseCompletion"
            => UNCHANGED <<projects, project_phases, phase_stakeholders, deliverables,
                           activity_logs, notifications>>]_vars

\* The check has answered true where one phase has its deliverable approved
\* and another phase has a deliverable in review.
C8_Witness ==
    /\ result.op = "checkPhaseCompletion"
    /\ result.value
    /\ \E d \in DOMAIN deliverables : deliverables[d].status = "approved"
    /\ \E d \in DOMAIN deliverables : deliverables[d].status = "review"

(***************************************************************************)
(* C11: completing an in-progress phase of order N while the phase of      *)
(* order N+1 of the project is pending starts that phase, sends one        *)
(* phase_start notification to each of its stakeholders, leaves every      *)
(* project's status, and appends exactly two log entries: the status       *)
(* change of the phase, then the auto-start of the next one.  "The" phase  *)
(* of order N+1 and "one" notification per stakeholder presuppose one      *)
(* phase at that order and one assignment per user.                        *)
(***************************************************************************)
LogEntry(projectId, userId, activityType, description) ==
    [project_id |-> projectId, user_id |-> userId,
     activity_type |-> activityType, description |-> description]

C11_CompletionStartsNextPhase ==
    \A phaseId \in DOMAIN project_phases, userId \in Callers, pick \in RowChoices :
        LET p == project_phases[phaseId]
        IN  \A next \in PhasesAt(p.project_id, p.phase_order + 1) :
            (/\ p.status = "in_progress"
             /\ PhasesAt(p.project_id, p.phase_order + 1) = {next}
             /\ project_phases[next].status = "pending"
             /\ \A u \in Users : StakeholderRows(next, u) <= 1)
            => LET out == progressPhase(DB, phaseId, "completed", userId, pick)
               IN  /\ out.error = NoError
                   /\ out.db.project_phases[phaseId].status = "completed"
                   /\ out.db.project_phases[next].status = "in_progress"
                   /\ out.db.notifications
                         = notifications (+) SetToBag(
                              {Notification(u, "phase_start", p.project_id) :
                                  u \in {v \in Users : StakeholderRows(next, v) = 1}})
                   /\ out.db.projects = projects
                   /\ out.db.activity_logs
                         = activity_logs \o
                           <<LogEntry(p.project_id, userId, "phase_status_change",
                                      Description(phaseId, "", "completed")),
                             LogEntry(p.project_id, NULL, "phase_auto_start",
                                      Description(next, "", ""))>>

\* progressPhase has completed phase 1 and phase 2, which has a stakeholder,
\* was started and its stakeholder notified.
C11_Witness ==
    /\ result.op = "progressPhase"
    /\ result.error = "none"
    /\ Len(project_phases) = 2
    /\ project_phases[1].status = "completed"
    /\ project_phases[2].status = "in_progress"
    /\ project_phases[2].project_id = project_phases[1].project_id
    /\ Len(activity_logs) >= 2
    /\ activity_logs[Len(activity_logs) - 1].activity_type = "phase_status_change"
    /\ LastLog.activity_type = "phase_auto_start"
    /\ \E u \in Users :
          BagIn(Notification(u, "phase_start", project_phases[2].project_id),
                notifications)

(***************************************************************************)
(* C12: a progressPhase(p, 'completed') call that completes p and leaves   *)
(* every phase of the project completed also completes the project, logs   *)
(* the project's status change, and sends one project_completed            *)
(* notification to every distinct stakeholder of the project's phases.     *)
(***************************************************************************)
C12_LastPhaseCompletesProject ==
    \A phaseId \in DOMAIN project_phases, userId \in Callers, pick \in RowChoices :
        LET p == project_phases[phaseId]
            out == progressPhase(DB, phaseId, "completed", userId, pick)
        IN  (/\ p.status = "in_progress"
             /\ \A ph \in PhasesOf(p.project_id) :
                   out.db.project_phases[ph].status = "completed")
            => /\ out.db.projects[p.project_id].status = "completed"
               /\ \E i \in DOMAIN out.db.activity_logs :
                     /\ i > Len(activity_logs)
                     /\ out.db.activity_logs[i].activity_type = "project_status_change"
                     /\ out.db.activity_logs[i].project_id = p.project_id
               /\ out.db.notifications
                     = notifications (+) SetToBag(
                          {Notification(u, "project_completed", p.project_id) :
                              u \in ProjectStakeholders(DB, p.project_id)})

(***************************************************************************)
(* C17: a call of transitionProjectStatus or progressPhase that raises     *)
(* NotFound or InvalidTransition has written nothing: projects, phases,    *)
(* activity log and notifications are as before the call.                  *)
(***************************************************************************)
C17_FailedCallWritesNothing ==
    /\ \A projectId \in ProjectIdInputs, newStatus \in ProjectStatusInputs,
          userId \in Callers, pick \in RowChoices :
          LET out == transitionProjectStatus(DB, projectId, newStatus, userId, pick)
          IN  out.error.kind \in {"NotFound", "InvalidTransition"} => out.db = DB
    /\ \A phaseId \in PhaseIdInputs, newStatus \in PhaseStatusInputs,
          userId \in Callers, pick \in RowChoices :
          LET out == progressPhase(DB, phaseId, newStatus, userId, pick)
          IN  out.error.kind \in {"NotFound", "InvalidTransition"} => out.db = DB

(***************************************************************************)
(* C15: a failing notification in the cascade is not propagated: a call    *)
(* along a legal edge that succeeds with a working sink also returns the   *)
(* updated record, without error, when the sink rejects notifications,     *)
(* and the persisted status is the target.                                 *)
(***************************************************************************)
C15_NotificationFailureNotPropagated ==
    /\ \A projectId \in DOMAIN projects, newStatus \in ProjectStatusInputs,
          userId \in Callers, pick \in RowChoices, sink \in Sinks :
          transitionProjectStatus(DB, projectId, newStatus, userId, pick).error = NoError
              => LET out == transitionProjectStatus(SinkDown(sink.down, sink.before),
                                                    projectId, newStatus, userId, pick)
                 IN  /\ out.error = NoError
                     /\ out.ret = Row(projectId, newStatus)
                     /\ out.db.projects[projectId].status = newStatus
    /\ \A phaseId \in DOMAIN project_phases, newStatus \in PhaseStatusInputs,
          userId \in Callers, pick \in RowChoices, sink \in Sinks :
          progressPhase(DB, phaseId, newStatus, userId, pick).error = NoError
              => LET out == progressPhase(SinkDown(sink.down, sink.before),
                                          phaseId, newStatus, userId, pick)
                 IN  /\ out.error = NoError
                     /\ out.ret = Row(phaseId, newStatus)
                     /\ out.db.project_phases[phaseId].status = newStatus

(***************************************************************************)
(* C16: in a cascade, a notification that fails for one user keeps         *)
(* nothing else from happening: compared with the same call on a working   *)
(* sink, the projects, the phases and the activity log end up the same,    *)
(* and so do the notifications to every user the sink works for.           *)
(***************************************************************************)
SameButFor(down, db, working) ==
    /\ db.projects = working.projects
    /\ db.project_phases = working.project_phases
    /\ db.activity_logs = working.activity_logs
    /\ \A n \in BagToSet(working.notifications) \cup BagToSet(db.notifications) :
          n.user_id \notin down
              => CopiesIn(n, db.notifications) = CopiesIn(n, working.notifications)

C16_FailureSkipsNothingElse ==
    /\ \A projectId \in DOMAIN projects, newStatus \in ProjectStatusInputs,
          userId \in Callers, pick \in RowChoices, sink \in Sinks :
          LET working == transitionProjectStatus(DB, projectId, newStatus, userId, pick)
              out == transitionProjectStatus(SinkDown(sink.down, sink.before),
                                             projectId, newStatus, userId, pick)
          IN  working.error = NoError => SameButFor(sink.down, out.db, working.db)
    /\ \A phaseId \in DOMAIN project_phases, newStatus \in PhaseStatusInputs,
          userId \in Callers, pick \in RowChoices, sink \in Sinks :
          LET working == progressPhase(DB, phaseId, newStatus, userId, pick)
              out == progressPhase(SinkDown(sink.down, sink.before),
                                   phaseId, newStatus, userId, pick)
          IN  working.error = NoError => SameButFor(sink.down, out.db, working.db)

(***************************************************************************)
(* C18: with no explicit dates supplied, a phase's actual_start_date is    *)
(* set when it first enters in_progress, its actual_end_date when it       *)
(* first enters completed, and a date once set is never overwritten.       *)
(***************************************************************************)
C18_ActualDatesSetOnce ==
    [][\A ph \in DOMAIN project_phases :
          LET old == project_phases[ph]
              new == project_phases'[ph]
          IN  /\ (old.actual_start_date = NULL /\ old.status # "in_progress"
                      /\ new.status = "in_progress")
                    => new.actual_start_date = today
              /\ (old.actual_end_date = NULL /\ old.status # "completed"
                      /\ new.status = "completed")
                    => new.actual_end_date = today
              /\ old.actual_start_date # NULL
                    => new.actual_start_date = old.actual_start_date
              /\ old.actual_end_date # NULL
                    => new.actual_end_date = old.actual_end_date]_vars

(***************************************************************************)
(* C19: once every deliverable of an in-progress phase that has            *)
(* deliverables is approved through deliverable status updates, the phase  *)
(* eventually becomes completed, with no explicit progressPhase call.      *)
(***************************************************************************)
ReadyToComplete(ph) ==
    /\ ph \in DOMAIN project_phases
    /\ project_phases[ph].status = "in_progress"
    /\ checkPhaseCompletion(ph)

IsCompleted(ph) ==
    /\ ph \in DOMAIN project_phases
    /\ project_phases[ph].status = "completed"

C19_ApprovedDeliverablesCompletePhase ==
    \A ph \in 1..MaxPhases : ReadyToComplete(ph) ~> IsCompleted(ph)

(***************************************************************************)
(* Concurrent calls.                                                       *)
(***************************************************************************)
Range(s) == {s[i] : i \in DOMAIN s}

\* The call has performed its status write.
Wrote(call) == "write" \in Range(call.steps)

\* Two calls in flight on the same entity that loaded the same status.
Racing(a, b) ==
    /\ a.op = b.op
    /\ a.op # ""
    /\ a.id = b.id
    /\ a.currentStatus = b.currentStatus
    /\ a.currentStatus # ""

(***************************************************************************)
(* C13: of two concurrent transitionProjectStatus(project, 'active')       *)
(* calls on the same draft project, whatever the interleaving of their     *)
(* steps, the two never both perform the status write.                     *)
(***************************************************************************)
C13_OneOfTwoActivationsWrites ==
    \A p \in Procs : \A q \in Procs \ {p} :
        ~(/\ Racing(calls[p], calls[q])
          /\ IsProjectCall(calls[p])
          /\ calls[p].currentStatus = "draft"
          /\ calls[p].newStatus = "active"
          /\ calls[q].newStatus = "active"
          /\ Wrote(calls[p])
          /\ Wrote(calls[q]))

(***************************************************************************)
(* C14: of two concurrent calls that move the same entity from the same    *)
(* status to different legal targets at most one performs its write, and   *)
(* under every interleaving each change of a persisted project or phase    *)
(* status follows a registry edge.                                         *)
(***************************************************************************)
C14_ConcurrentChangesFollowEdges ==
    /\ [](\A p \in Procs : \A q \in Procs \ {p} :
            ~(/\ Racing(calls[p], calls[q])
              /\ calls[p].newStatus # calls[q].newStatus
              /\ Wrote(calls[p])
              /\ Wrote(calls[q])))
    /\ [][/\ \A id \in DOMAIN projects :
               projects'[id].status # projects[id].status
                   => projects'[id].status \in RegistryProjectEdges[projects[id].status]
           /\ \A ph \in DOMAIN project_phases :
               project_phases'[ph].status # project_phases[ph].status
                   => project_phases'[ph].status
                          \in RegistryPhaseEdges[project_phases[ph].status]]_vars

(***************************************************************************)
(* C20: within one call the steps go load, validate, status write, log     *)
(* entry, cascade: the call appends to the activity log only after its     *)
(* status write, the cascade's effects (a phase started by a project       *)
(* transition, a notification, a project completed by a phase transition)  *)
(* come only after the call's log entry, and a call whose step failed      *)
(* performs no further step.                                               *)
(***************************************************************************)
StepOrder == <<"load", "validate", "write", "log", "cascade">>

C20_StepsInStrictOrder ==
    /\ [](\A p \in Procs :
            /\ Len(calls[p].steps) <= Len(StepOrder)
            /\ calls[p].steps = SubSeq(StepOrder, 1, Len(calls[p].steps)))
    /\ [][\A p \in Procs :
            LET call == calls[p]
                logged == "log" \in Range(call.steps)
            IN  calls'[p] # call =>
                /\ call.error # "none" => call.pc = "idle"
                /\ Len(activity_logs') > Len(activity_logs) => Wrote(call)
                /\ notifications' # notifications => logged
                /\ (IsProjectCall(call) /\ project_phases' # project_phases) => logged
                /\ (~IsProjectCall(call) /\ projects' # projects) => logged
                /\ (~IsProjectCall(call) /\ call.pc # "idle"
                       /\ \E ph \in DOMAIN project_phases \ {call.id} :
                              project_phases'[ph] # project_phases[ph]) => logged]_vars

\* A progressPhase call has gone through all five steps after another one
\* did; its cascade started the next phase and notified its stakeholder.
C20_Witness ==
    \E p \in Procs : \E q \in Procs \ {p} :
        /\ calls[p].op = "progressPhase"
        /\ calls[p].newStatus = "completed"
        /\ calls[p].pc = "done"
        /\ calls[p].error = "none"
        /\ calls[p].steps = StepOrder
        /\ calls[q].steps = StepOrder
        /\ Len(activity_logs) >= 2
        /\ LastLog.activity_type = "phase_auto_start"
        /\ notifications # EmptyBag

(***************************************************************************)
(* C21: the activation cascade starts the first phase by a direct write    *)
(* that fires no phase cascade: a successful activation appends exactly    *)
(* one log entry, the project's status change, and sends exactly one       *)
(* notification, project_activated to the PM, hence none about a phase to  *)
(* the stakeholders of phase 1; when no phase of order 1 of the project    *)
(* is pending it changes no phase and still notifies the PM.               *)
(***************************************************************************)
C21_ActivationIsDirectWrite ==
    \A projectId \in DOMAIN projects, userId \in Callers, pick \in RowChoices :
        LET out == transitionProjectStatus(DB, projectId, "active", userId, pick)
        IN  out.error = NoError
            => /\ out.db.activity_logs
                     = Append(activity_logs,
                              LogEntry(projectId, userId, "project_status_change",
                                       Description(projectId, projects[projectId].status,
                                                   "active")))
               /\ out.db.notifications
                     = notifications (+) SetToBag({Notification(
                           projects[projectId].pm_id, "project_activated", projectId)})
               /\ (\A ph \in PhasesAt(projectId, 1) :
                       project_phases[ph].status # "pending")
                     => out.db.project_phases = project_phases

\* A project on hold was activated again: its phase of order 1, which has a
\* stakeholder, was in progress already, and the only notifications are the
\* two project_activated ones.
C21_Witness ==
    /\ result.op = "transitionProjectStatus"
    /\ result.error = "none"
    /\ Len(activity_logs) > 0
    /\ LastLog.activity_type = "project_status_change"
    /\ LastLog.description.from = "on_hold"
    /\ LastLog.description.to = "active"
    /\ \E ph \in PhasesAt(LastLog.project_id, 1) :
          /\ PhasesAt(LastLog.project_id, 1) = {ph}
          /\ project_phases[ph].status = "in_progress"
          /\ \E i \in DOMAIN phase_stakeholders : phase_stakeholders[i].phase_id = ph
    /\ BagCardinality(notifications) = 2
    /\ \A n \in BagToSet(notifications) : n.notification_type = "project_activated"

(***************************************************************************)
(* C22: a transition to a status without cascade changes the entity and    *)
(* the activity log only: a successful project transition to on_hold or    *)
(* cancelled leaves every phase and sends no notification, a successful    *)
(* phase transition to blocked leaves every other phase, every project     *)
(* and sends no notification; each appends exactly one log entry.          *)
(***************************************************************************)
C22_NoCascadeStatusesTouchNothingElse ==
    /\ \A projectId \in DOMAIN projects, newStatus \in {"on_hold", "cancelled"},
          userId \in Callers, pick \in RowChoices :
          LET out == transitionProjectStatus(DB, projectId, newStatus, userId, pick)
          IN  out.error = NoError
              => /\ out.db.project_phases = project_phases
                 /\ out.db.notifications = notifications
                 /\ out.db.projects = [projects EXCEPT ![projectId].status = newStatus]
                 /\ out.db.activity_logs
                       = Append(activity_logs,
                                LogEntry(projectId, userId, "project_status_change",
                                         Description(projectId, projects[projectId].status,
                                                     newStatus)))
    /\ \A phaseId \in DOMAIN project_phases, userId \in Callers, pick \in RowChoices :
          LET out == progressPhase(DB, phaseId, "blocked", userId, pick)
          IN  out.error = NoError
              => /\ out.db.projects = projects
                 /\ out.db.notifications = notifications
                 /\ out.db.project_phases
                       = [project_phases EXCEPT ![phaseId].status = "blocked"]
                 /\ out.db.activity_logs
                       = Append(activity_logs,
                                LogEntry(project_phases[phaseId].project_id, userId,
                                         "phase_status_change",
                                         Description(phaseId, "", "blocked")))

\* A phase with a stakeholder was blocked while the project's other phase
\* is pending; the only notification is the PM's from the activation.
C22_Witness ==
    /\ result.op = "progressPhase"
    /\ result.error = "none"
    /\ result.ret \in DOMAIN project_phases
    /\ project_phases[result.ret].status = "blocked"
    /\ LastLog.activity_type = "phase_status_change"
    /\ LastLog.description.to = "blocked"
    /\ \E i \in DOMAIN phase_stakeholders : phase_stakeholders[i].phase_id = result.ret
    /\ \E ph \in PhasesOf(project_phases[result.ret].project_id) \ {result.ret} :
          project_phases[ph].status = "pending"
    /\ BagCardinality(notifications) = 1
    /\ \A n \in BagToSet(notifications) : n.notification_type = "project_activated"

(***************************************************************************)
(* C23: checkDeadlines only fans out notifications: it leaves projects,    *)
(* phases, deliverables and the activity log; it sends one deadline        *)
(* warning to the project's PM per in-progress phase whose end date is     *)
(* within the window, one to the assignee per deliverable within the       *)
(* window that is neither approved nor rejected, none for a deliverable    *)
(* without assignee; and run twice on the same state it sends each of      *)
(* them twice.                                                             *)
(***************************************************************************)
PhasesDue ==
    {ph \in DOMAIN project_phases :
        /\ project_phases[ph].status = "in_progress"
        /\ project_phases[ph].end_date \in today..(today + Window)}

DeliverablesDue ==
    {d \in DOMAIN deliverables :
        /\ deliverables[d].status \notin {"approved", "rejected"}
        /\ deliverables[d].due_date \in today..(today + Window)}

\* The warnings one sweep owes to user u about project pr.
WarningsDue(u, pr) ==
    Cardinality({ph \in PhasesDue : /\ project_phases[ph].project_id = pr
                                    /\ projects[pr].pm_id = u})
    + Cardinality({d \in DeliverablesDue : /\ deliverables[d].project_id = pr
                                           /\ deliverables[d].assigned_to = u})

C23_DeadlineSweepOnlyNotifies ==
    /\ [](LET once == checkDeadlines(DB)
              twice == checkDeadlines(once.db)
              warning(u, pr) == Notification(u, "deadline_warning", pr)
          IN  /\ once.error = NoError
              /\ once.db.projects = projects
              /\ once.db.project_phases = project_phases
              /\ once.db.activity_logs = activity_logs
              /\ \A u \in Users, pr \in DOMAIN projects :
                    /\ CopiesIn(warning(u, pr), once.db.notifications)
                          = CopiesIn(warning(u, pr), notifications) + WarningsDue(u, pr)
                    /\ CopiesIn(warning(u, pr), twice.db.notifications)
                          = CopiesIn(warning(u, pr), notifications)
                                + 2 * WarningsDue(u, pr)
              /\ \A n \in BagToSet(once.db.notifications) \cup BagToSet(notifications) :
                    n.notification_type # "deadline_warning"
                        => CopiesIn(n, once.db.notifications) = CopiesIn(n, notifications)
              /\ \A n \in BagToSet(once.db.notifications) :
                    n.user_id \in Users /\ n.related_project_id \in DOMAIN projects)
    /\ [][result'.op = "checkDeadlines"
            => UNCHANGED <<projects, project_phases, phase_stakeholders, deliverables,
                           activity_logs>>]_vars

\* The sweep has run twice over an in-progress phase within the window,
\* whose PM has two warnings beside the activation notice, while an approved
\* deliverable within the window, assigned to a user, got none.
C23_Witness ==
    /\ result.op = "checkDeadlines"
    /\ \E ph \in PhasesDue :
          CopiesIn(Notification(projects[project_phases[ph].project_id].pm_id,
                                "deadline_warning", project_phases[ph].project_id),
                   notifications) = 2
    /\ BagCardinality(notifications) = 3
    /\ \E d \in DOMAIN deliverables :
          /\ deliverables[d].status = "approved"
          /\ deliverables[d].assigned_to # NULL
          /\ deliverables[d].due_date \in today..(today + Window)

(***************************************************************************)
(* C24: a project just created from a template has its phases all pending  *)
(* and their phase_order values are pairwise distinct and exactly          *)
(* 1..count(phases), for every template the template creation accepts.     *)
(***************************************************************************)
C24_PhaseOrdersAreOneToCount ==
    result.op = "createProject"
        => LET created == PhasesOf(result.ret)
           IN  /\ \A ph \in created : project_phases[ph].status = "pending"
               /\ \A ph \in created : \A other \in created \ {ph} :
                     project_phases[ph].phase_order # project_phases[other].phase_order
               /\ {project_phases[ph].phase_order : ph \in created}
                     = 1..Cardinality(created)

(***************************************************************************)
(* C25: every call of transitionProjectStatus and progressPhase comes to   *)
(* an end, returning or raising, and the chain of engine operations is at  *)
(* most two deep: no cascade of transitionProjectStatus calls an engine    *)
(* operation, and what progressPhase calls calls none.                     *)
(***************************************************************************)
ErrorKinds == {"none", "NotFound", "InvalidTransition", "NotificationFailure"}

C25_CallDepthAtMostTwo ==
    /\ \A projectId \in ProjectIdInputs, newStatus \in ProjectStatusInputs,
          userId \in Callers, pick \in RowChoices :
          LET out == transitionProjectStatus(DB, projectId, newStatus, userId, pick)
          IN  /\ out.error.kind \in ErrorKinds
              /\ out.db.deepest = 1
    /\ \A phaseId \in PhaseIdInputs, newStatus \in PhaseStatusInputs,
          userId \in Callers, pick \in RowChoices :
          LET out == progressPhase(DB, phaseId, newStatus, userId, pick)
          IN  /\ out.error.kind \in ErrorKinds
              /\ out.db.deepest <= 2
              /\ out.db.depth = 1
    /\ result.depth <= 2
    /\ result.op = "transitionProjectStatus" => result.depth = 1

\* progressPhase has completed the last phase of a project and, one level
\* down, transitionProjectStatus has completed the project.
C25_Witness ==
    /\ result.op = "progressPhase"
    /\ result.error = "none"
    /\ result.depth = 2
    /\ Len(activity_logs) >= 2
    /\ LastLog.activity_type = "project_status_change"
    /\ LastLog.description.to = "completed"
    /\ activity_logs[Len(activity_logs) - 1].activity_type = "phase_status_change"

(***************************************************************************)
(* C26: terminal statuses are stable under the whole engine, cascades      *)
(* included: with the engine's operations called one at a time, a          *)
(* completed or cancelled project keeps its status and a completed phase   *)
(* stays completed.                                                        *)
(***************************************************************************)
C26_TerminalStatusesStable ==
    [][/\ \A id \in DOMAIN projects :
             projects[id].status \in {"completed", "cancelled"}
                 => projects'[id].status = projects[id].status
       /\ \A ph \in DOMAIN project_phases :
             project_phases[ph].status = "completed"
                 => project_phases'[ph].status = "completed"]_vars

\* autoProgressToNextPhase was called and started nothing where a project is
\* completed and all of its phases are.
C26_Witness ==
    /\ result.op = "autoProgressToNextPhase"
    /\ result.ret = NULL
    /\ \E id \in DOMAIN projects :
          /\ projects[id].status = "completed"
          /\ PhasesOf(id) # {}
          /\ \A ph \in PhasesOf(id) : project_phases[ph].status = "completed"

(***************************************************************************)
(* C27: in every reachable state, every phase of a completed project is    *)
(* completed.                                                              *)
(***************************************************************************)
C27_CompletedProjectHasCompletedPhases ==
    \A id \in DOMAIN projects :
        projects[id].status = "completed"
            => \A ph \in PhasesOf(id) : project_phases[ph].status = "completed"

(***************************************************************************)
(* C28: when progressPhase(p, 'completed') completes the last open phase   *)
(* of a project that is not active, the call raises InvalidTransition      *)
(* from the nested project transition, phase p stays completed with its    *)
(* log entry, and the project's status is as before: nothing is rolled     *)
(* back.                                                                   *)
(***************************************************************************)
C28_FailedAutoCompletionKeepsPhaseWrite ==
    \A phaseId \in DOMAIN project_phases, userId \in Callers, pick \in RowChoices :
        LET p == project_phases[phaseId]
            status == projects[p.project_id].status
            out == progressPhase(DB, phaseId, "completed", userId, pick)
        IN  (/\ p.status = "in_progress"
             /\ \A ph \in PhasesOf(p.project_id) \ {phaseId} :
                   project_phases[ph].status = "completed"
             /\ status # "active")
            => /\ out.error = InvalidTransition(status, "completed")
               /\ out.db.project_phases[phaseId].status = "completed"
               /\ out.db.activity_logs
                     = Append(activity_logs,
                              LogEntry(p.project_id, userId, "phase_status_change",
                                       Description(phaseId, "", "completed")))
               /\ out.db.projects = projects
               /\ out.db.notifications = notifications

\* progressPhase has raised InvalidTransition one level down, on a project
\* that is still draft, and the phase it was called on is completed and
\* logged.
C28_Witness ==
    /\ result.op = "progressPhase"
    /\ result.error = "InvalidTransition"
    /\ result.depth = 2
    /\ Len(activity_logs) > 0
    /\ LastLog.activity_type = "phase_status_change"
    /\ LastLog.description.to = "completed"
    /\ project_phases[LastLog.description.subject].status = "completed"
    /\ projects[LastLog.project_id].status = "draft"
    /\ \A ph \in PhasesOf(LastLog.project_id) : project_phases[ph].status = "completed"

(***************************************************************************)
(* C29: each phase is auto-started at most once: under every interleaving  *)
(* of concurrent progressPhase(p, 'completed') calls on the same phase,    *)
(* the activity log holds at most one auto-start entry per phase and no    *)
(* user holds more phase_start notifications of a project than the user    *)
(* has assignments to phases of it.                                        *)
(***************************************************************************)
AutoStarts(ph) ==
    {i \in DOMAIN activity_logs :
        /\ activity_logs[i].activity_type = "phase_auto_start"
        /\ activity_logs[i].description.subject = ph}

Assignments(u, projectId) ==
    Cardinality({i \in DOMAIN phase_stakeholders :
                    /\ phase_stakeholders[i].user_id = u
                    /\ phase_stakeholders[i].phase_id \in PhasesOf(projectId)})

C29_PhaseAutoStartedOnce ==
    /\ \A ph \in DOMAIN project_phases : Cardinality(AutoStarts(ph)) <= 1
    /\ \A u \in Users, projectId \in DOMAIN projects :
          CopiesIn(Notification(u, "phase_start", projectId), notifications)
              <= Assignments(u, projectId)

(***************************************************************************)
(* C30: after any interleaving of PUT /api/deliverables/:id with new       *)
(* content and POST /api/deliverables/:id/generate, the version records of *)
(* every deliverable carry pairwise distinct version numbers that are      *)
(* exactly 1..n for its n versions.                                        *)
(***************************************************************************)
VersionsOf(deliverableId) ==
    {v \in DOMAIN deliverable_versions :
        deliverable_versions[v].deliverable_id = deliverableId}

C30_VersionNumbersAreOneToN ==
    \A d \in DOMAIN deliverables :
        /\ \A v, w \in VersionsOf(d) :
              v # w => deliverable_versions[v].version_number
                         # deliverable_versions[w].version_number
        /\ {deliverable_versions[v].version_number : v \in VersionsOf(d)}
              = 1..Cardinality(VersionsOf(d))

====
